---- MODULE Spec2Model ----
(***************************************************************************)
(* Job search pipeline of app.py: create_country_job_queries,              *)
(* enhanced_google_scraper (result filter and source assignment), the      *)
(* fan-out, deduplication and ranking of run_enhanced_job_scraper.         *)
(*                                                                         *)
(* A Python str is a sequence of one-character strings, so that lower(),   *)
(* strip(), slicing, split() and the "in" substring test are computed as   *)
(* the code computes them.                                                 *)
(***************************************************************************)
EXTENDS Integers, Sequences, FiniteSets, TLC

(***************************************************************************)
(* Python str operations.                                                  *)
(***************************************************************************)
UpperLetters ==
    <<"A","B","C","D","E","F","G","H","I","J","K","L","M",
      "N","O","P","Q","R","S","T","U","V","W","X","Y","Z">>

LowerLetters ==
    <<"a","b","c","d","e","f","g","h","i","j","k","l","m",
      "n","o","p","q","r","s","t","u","v","w","x","y","z">>

\* the lowercase letter of each uppercase letter
LowerTable == [c \in {UpperLetters[k] : k \in 1..26} |->
                  LowerLetters[CHOOSE k \in 1..26 : UpperLetters[k] = c]]

LowerChar(c) == IF c \in DOMAIN LowerTable THEN LowerTable[c] ELSE c

\* str.lower()
Lower(s) == [k \in 1..Len(s) |-> LowerChar(s[k])]

\* s[:n]
Take(s, n) == SubSeq(s, 1, IF n < Len(s) THEN n ELSE Len(s))

\* s[n:]
Drop(s, n) == SubSeq(s, n + 1, Len(s))

StartsWithLengthOnly(s, p) == Len(s) >= Len(p)

\* s.startswith(p)
StartsWith(s, p) == Len(s) >= Len(p) /\ SubSeq(s, 1, Len(p)) = p

\* sub is in s at offset k
MatchAt(s, sub, k) == \A i \in 1..Len(sub) : s[k + i] = sub[i]

\* sub in s
Contains(s, sub) == \E k \in 0..(Len(s) - Len(sub)) : MatchAt(s, sub, k)

\* s.find(sub): the 0-based offset of the first occurrence (Contains(s, sub))
Find(s, sub) ==
    CHOOSE k \in 0..(Len(s) - Len(sub)) :
        MatchAt(s, sub, k) /\ \A j \in 0..(k - 1) : ~MatchAt(s, sub, j)

\* s.split(sep)[0]
SplitFirst(s, sep) == IF Contains(s, sep) THEN Take(s, Find(s, sep)) ELSE s

\* s.split(sep)[1], for a string that holds sep
SplitSecond(s, sep) == SplitFirst(Drop(s, Find(s, sep) + Len(sep)), sep)

\* s.split(sep)[-1]: split scans left to right over non-overlapping matches
RECURSIVE SplitLast(_, _)
SplitLast(s, sep) ==
    IF Contains(s, sep) THEN SplitLast(Drop(s, Find(s, sep) + Len(sep)), sep) ELSE s

IsSpace(c) == c = " "

\* s.strip()
RECURSIVE LStrip(_)
LStrip(s) == IF s # <<>> /\ IsSpace(Head(s)) THEN LStrip(Tail(s)) ELSE s

RECURSIVE RStrip(_)
RStrip(s) ==
    IF s # <<>> /\ IsSpace(s[Len(s)]) THEN RStrip(SubSeq(s, 1, Len(s) - 1)) ELSE s

Strip(s) == RStrip(LStrip(s))

\* any(w in s for w in words)
AnyIn(words, s) == \E k \in 1..Len(words) : Contains(s, words[k])

\* c * n
Repeat(c, n) == [k \in 1..n |-> c]

\* s padded on the right with "x" to n characters
PadTo(s, n) == s \o Repeat("x", n - Len(s))

(***************************************************************************)
(* enhanced_google_scraper: the fixed tables.                              *)
(***************************************************************************)
job_indicators ==
    << <<"j","o","b">>,
       <<"c","a","r","e","e","r">>,
       <<"p","o","s","i","t","i","o","n">>,
       <<"h","i","r","i","n","g">>,
       <<"v","a","c","a","n","c","y">>,
       <<"e","m","p","l","o","y","m","e","n","t">>,
       <<"w","o","r","k">>,
       <<"o","p","p","o","r","t","u","n","i","t","y">>,
       <<"a","p","p","l","y">>,
       <<"r","e","c","r","u","i","t">> >>

\* job_indicators[:5], the indicators looked for in the snippet
SnippetIndicators == 5

spam_phrases ==
    << <<"f","r","e","e">>,
       <<"e","a","s","y"," ","m","o","n","e","y">>,
       <<"w","o","r","k"," ","f","r","o","m"," ","h","o","m","e"," ","s","c","a","m">> >>

LinkedIn == <<"L","i","n","k","e","d","I","n">>
Indeed == <<"I","n","d","e","e","d">>
Glassdoor == <<"G","l","a","s","s","d","o","o","r">>
Monster == <<"M","o","n","s","t","e","r">>
Greenhouse == <<"G","r","e","e","n","h","o","u","s","e">>
Lever == <<"L","e","v","e","r">>
Workday == <<"W","o","r","k","d","a","y">>
BambooHR == <<"B","a","m","b","o","o","H","R">>
CompanyCareerPage ==
    <<"C","o","m","p","a","n","y"," ","C","a","r","e","e","r"," ","P","a","g","e">>
Unknown == <<"U","n","k","n","o","w","n">>

\* domain_indicators, in the dict's insertion order: <<indicator, source_name>>
domain_indicators ==
    << << <<"l","i","n","k","e","d","i","n">>, LinkedIn >>,
       << <<"i","n","d","e","e","d">>, Indeed >>,
       << <<"g","l","a","s","s","d","o","o","r">>, Glassdoor >>,
       << <<"m","o","n","s","t","e","r">>, Monster >>,
       << <<"g","r","e","e","n","h","o","u","s","e">>, Greenhouse >>,
       << <<"l","e","v","e","r">>, Lever >>,
       << <<"w","o","r","k","d","a","y">>, Workday >>,
       << <<"b","a","m","b","o","o","h","r">>, BambooHR >>,
       << <<"c","a","r","e","e","r","s">>, CompanyCareerPage >> >>

NoDescription ==
    <<"N","o"," ","d","e","s","c","r","i","p","t","i","o","n"," ",
      "a","v","a","i","l","a","b","l","e",".">>

Ellipsis == <<".",".",".">>

Http == <<"h","t","t","p">>

\* len(title) > 10
TitleMin == 10

\* len(title) < 150
TitleMax == 150

\* snippet[:400]
SnippetMax == 400

\* search_query[:50]
QueryMax == 50

\* results[:10]
ResultsMax == 10

(***************************************************************************)
(* enhanced_google_scraper: one result of the page.                        *)
(***************************************************************************)
is_job_related(title_lower, link_lower, snippet_lower) ==
    \/ AnyIn(job_indicators, title_lower)
    \/ AnyIn(job_indicators, link_lower)
    \/ AnyIn(Take(job_indicators, SnippetIndicators), snippet_lower)

TitleLengthOkInclusive(title) == Len(title) >= TitleMin /\ Len(title) <= TitleMax

\* len(title) > 10 and len(title) < 150
TitleLengthOk(title) == Len(title) > TitleMin /\ Len(title) < TitleMax

IsSpamCaseSensitive(title) == AnyIn(spam_phrases, title)

\* any(spam in title_lower for spam in [...]); title_lower = title.lower()
IsSpam(title) == AnyIn(spam_phrases, Lower(title))

\* the quality filter of lines 577-580
QualityFilter(title, link, snippet) ==
    /\ is_job_related(Lower(title), Lower(link), Lower(snippet))
    /\ TitleLengthOk(title)
    /\ ~IsSpam(title)

DetermineSourceOrNone(link_lower) ==
    IF \E k \in 1..Len(domain_indicators) : Contains(link_lower, domain_indicators[k][1])
    THEN domain_indicators[
             CHOOSE k \in 1..Len(domain_indicators) :
                 /\ Contains(link_lower, domain_indicators[k][1])
                 /\ \A j \in 1..(k - 1) : ~Contains(link_lower, domain_indicators[j][1])][2]
    ELSE <<>>

DetermineSourceLastMatch(link_lower) ==
    IF \E k \in 1..Len(domain_indicators) : Contains(link_lower, domain_indicators[k][1])
    THEN domain_indicators[
             CHOOSE k \in 1..Len(domain_indicators) :
                 /\ Contains(link_lower, domain_indicators[k][1])
                 /\ \A j \in (k + 1)..Len(domain_indicators) :
                        ~Contains(link_lower, domain_indicators[j][1])][2]
    ELSE Unknown

\* the first entry of domain_indicators whose indicator is in link_lower
DetermineSource(link_lower) ==
    IF \E k \in 1..Len(domain_indicators) : Contains(link_lower, domain_indicators[k][1])
    THEN domain_indicators[
             CHOOSE k \in 1..Len(domain_indicators) :
                 /\ Contains(link_lower, domain_indicators[k][1])
                 /\ \A j \in 1..(k - 1) : ~Contains(link_lower, domain_indicators[j][1])][2]
    ELSE Unknown

\* s[:n] + "..." if len(s) > n else s
Truncate(s, n) == IF Len(s) > n THEN Take(s, n) \o Ellipsis ELSE s

NoJob ==
    [title |-> <<>>, link |-> <<>>, snippet |-> <<>>, source |-> <<>>,
     scraped_at |-> 0, query |-> <<>>]

\* the dict appended to jobs
MakeJob(title, link, snippet, query, t) ==
    [title |-> title,
     link |-> link,
     snippet |-> Truncate(snippet, SnippetMax),
     source |-> DetermineSource(Lower(link)),
     scraped_at |-> t,
     query |-> Truncate(query, QueryMax)]

\* A result of the page: whether it has an h3 and an a element, the a's href
\* ("" when absent), the h3's text, the snippet element's text when there is
\* one, and whether processing it raises.
\* The body of the per-result try: "raise", "skip" (continue) or "emit".
ResultOutcome(raw, query, t) ==
    LET snippet == IF raw.has_snippet THEN raw.snippet ELSE NoDescription IN
    IF raw.raises THEN [kind |-> "raise", job |-> NoJob]
    ELSE IF ~raw.has_h3 \/ ~raw.has_a THEN [kind |-> "skip", job |-> NoJob]
    ELSE IF ~StartsWith(raw.link, Http) THEN [kind |-> "skip", job |-> NoJob]
    ELSE IF QualityFilter(raw.title, raw.link, snippet)
         THEN [kind |-> "emit", job |-> MakeJob(raw.title, raw.link, snippet, query, t)]
         ELSE [kind |-> "skip", job |-> NoJob]

(***************************************************************************)
(* enhanced_google_scraper: exceptions and the whole call.                 *)
(***************************************************************************)
\* What the call meets before the result loop: nothing, or an exception
\* while building the URL (line 512), in session.get (line 521), in
\* raise_for_status (line 522) or in BeautifulSoup (line 524).
Failures == {"none", "url", "get", "status", "parse"}

\* requests raises subclasses of RequestException; anything else is a plain
\* Exception
ExceptionClass(failure) ==
    IF failure \in {"get", "status"} THEN "RequestException" ELSE "Exception"

OuterCatchesRequestOnly(cls) == cls = "RequestException"

\* except requests.exceptions.RequestException / except Exception (616-621)
OuterCatches(cls) == cls \in {"RequestException", "Exception"}

\* except Exception around one result (610-612)
InnerCatches(cls) == cls = "Exception"

\* an exception of class cls leaving the outer try: return [] when a handler
\* catches it, otherwise it leaves the function
Propagate(cls) ==
    IF OuterCatches(cls)
    THEN [raised |-> FALSE, jobs |-> <<>>]
    ELSE [raised |-> TRUE, jobs |-> <<>>]

\* for result in results[:10], from the jobs gathered so far
RECURSIVE ScrapeLoop(_, _, _, _)
ScrapeLoop(results, jobs, query, t) ==
    IF results = <<>> THEN [raised |-> FALSE, jobs |-> jobs]
    ELSE LET o == ResultOutcome(Head(results), query, t) IN
         IF o.kind = "raise" /\ ~InnerCatches("Exception") THEN Propagate("Exception")
         ELSE ScrapeLoop(Tail(results),
                         IF o.kind = "emit" THEN Append(jobs, o.job) ELSE jobs,
                         query, t)

\* enhanced_google_scraper(search_query) on a page, at time t: what the call
\* returns, or that an exception left it
enhanced_google_scraper(query, pg, t) ==
    IF pg.failure # "none" THEN Propagate(ExceptionClass(pg.failure))
    ELSE ScrapeLoop(Take(pg.results, ResultsMax), <<>>, query, t)

(***************************************************************************)
(* run_enhanced_job_scraper: deduplication (666-697).                      *)
(***************************************************************************)
AtSep == <<" ","a","t"," ">>

CareersDot == <<"c","a","r","e","e","r","s",".">>

Dot == <<".">>

\* title_clean[:50]
HashPrefix == 50

preferred_sources ==
    << <<"g","r","e","e","n","h","o","u","s","e">>,
       <<"l","e","v","e","r">>,
       <<"l","i","n","k","e","d","i","n">>,
       <<"c","o","m","p","a","n","y"," ","c","a","r","e","e","r"," ","p","a","g","e">>,
       <<"i","n","d","e","e","d">> >>

\* job['title'].lower().strip()
title_clean(job) == Strip(Lower(job.title))

\* lines 673-679
company_identifier(job) ==
    LET link_clean == Lower(job.link) IN
    IF Contains(title_clean(job), AtSep) THEN SplitLast(title_clean(job), AtSep)
    ELSE IF Contains(link_clean, CareersDot)
         THEN SplitFirst(SplitSecond(link_clean, CareersDot), Dot)
    ELSE IF job.source # Unknown THEN Lower(job.source)
    ELSE <<>>

HashInputTitleOnly(job) == Take(title_clean(job), HashPrefix)

HashInputNoSource(job) == Take(title_clean(job), HashPrefix) \o company_identifier(job)

HashInputWithLink(job) ==
    Take(title_clean(job), HashPrefix) \o company_identifier(job) \o job.source \o job.link

\* the string that is hashed (682)
HashInput(job) ==
    Take(title_clean(job), HashPrefix) \o company_identifier(job) \o job.source

\* hashlib.md5(s.encode()).hexdigest(), taken as free of collisions: the
\* digest of s is a value that only s has
md5_hexdigest(s) == <<"md5", s>>

job_hash(job) == md5_hexdigest(HashInput(job))

\* unique_jobs is a dict: the sequence of its entries [key, job] in
\* insertion order, the order list(unique_jobs.values()) gives
HasKey(uj, h) == \E k \in 1..Len(uj) : uj[k].key = h

KeyIndex(uj, h) == CHOOSE k \in 1..Len(uj) : uj[k].key = h

\* any(source in s for source in preferred_sources)
IsPreferred(s) == AnyIn(preferred_sources, s)

DedupInsertNormalizing(uj, job) ==
    LET stored == [job EXCEPT !.title = Take(title_clean(job), HashPrefix)]
        h == job_hash(job)
    IN IF ~HasKey(uj, h) THEN Append(uj, [key |-> h, job |-> stored])
       ELSE LET k == KeyIndex(uj, h) IN
            IF IsPreferred(Lower(job.source)) /\ ~IsPreferred(Lower(uj[k].job.source))
            THEN [uj EXCEPT ![k].job = stored]
            ELSE uj

DedupInsertKeepLast(uj, job) ==
    LET h == job_hash(job) IN
    IF ~HasKey(uj, h) THEN Append(uj, [key |-> h, job |-> job])
    ELSE [uj EXCEPT ![KeyIndex(uj, h)].job = job]

\* the body of "for job in all_jobs" (669-695)
DedupInsert(uj, job) ==
    LET h == job_hash(job) IN
    IF ~HasKey(uj, h) THEN Append(uj, [key |-> h, job |-> job])
    ELSE LET k == KeyIndex(uj, h)
             existing_source == Lower(uj[k].job.source)
             new_source == Lower(job.source)
         IN IF IsPreferred(new_source) /\ ~IsPreferred(existing_source)
            THEN [uj EXCEPT ![k].job = job]
            ELSE uj

RECURSIVE DedupAll(_, _)
DedupAll(uj, jobs) ==
    IF jobs = <<>> THEN uj ELSE DedupAll(DedupInsert(uj, Head(jobs)), Tail(jobs))

\* list(unique_jobs.values())
Values(uj) == [k \in 1..Len(uj) |-> uj[k].job]

\* lines 667-697 on a list of jobs
Deduplicate(jobs) == Values(DedupAll(<<>>, jobs))

CollectJobsAssign(all, jobs) == jobs

\* if jobs: all_jobs.extend(jobs) (655-656)
CollectJobs(all, jobs) == IF jobs # <<>> THEN all \o jobs ELSE all

\* ThreadPoolExecutor(max_workers=3)
max_workers == 3

(***************************************************************************)
(* create_country_job_queries (465-507).                                   *)
(***************************************************************************)
UnitedStates == <<"U","n","i","t","e","d"," ","S","t","a","t","e","s">>

India == <<"I","n","d","i","a">>

\* the entries of COUNTRIES (70-121) for the countries above: job_sites and
\* search_terms
COUNTRIES ==
    (UnitedStates :>
        [job_sites |->
             << <<"l","i","n","k","e","d","i","n",".","c","o","m","/","j","o","b","s">>,
                <<"i","n","d","e","e","d",".","c","o","m">>,
                <<"g","l","a","s","s","d","o","o","r",".","c","o","m">>,
                <<"m","o","n","s","t","e","r",".","c","o","m">> >>,
         search_terms |->
             << <<"j","o","b","s">>,
                <<"c","a","r","e","e","r","s">>,
                <<"h","i","r","i","n","g">>,
                <<"e","m","p","l","o","y","m","e","n","t">> >>])
    @@
    (India :>
        [job_sites |->
             << <<"l","i","n","k","e","d","i","n",".","c","o","m","/","j","o","b","s">>,
                <<"n","a","u","k","r","i",".","c","o","m">>,
                <<"i","n","d","e","e","d",".","c","o",".","i","n">>,
                <<"m","o","n","s","t","e","r",".","c","o",".","i","n">> >>,
         search_terms |->
             << <<"j","o","b","s">>,
                <<"c","a","r","e","e","r","s">>,
                <<"n","a","u","k","r","i">>,
                <<"e","m","p","l","o","y","m","e","n","t">> >>])

Technology == <<"T","e","c","h","n","o","l","o","g","y">>

FinanceBanking == <<"F","i","n","a","n","c","e"," ","&"," ","B","a","n","k","i","n","g">>

\* the entries of INDUSTRIES (124-175) for the industries above: keywords
INDUSTRIES ==
    (Technology :>
        [keywords |->
             << <<"t","e","c","h">>,
                <<"s","o","f","t","w","a","r","e">>,
                <<"d","e","v","e","l","o","p","e","r">>,
                <<"e","n","g","i","n","e","e","r">>,
                <<"p","r","o","g","r","a","m","m","i","n","g">>,
                <<"c","o","d","i","n","g">> >>])
    @@
    (FinanceBanking :>
        [keywords |->
             << <<"f","i","n","a","n","c","e">>,
                <<"b","a","n","k","i","n","g">>,
                <<"i","n","v","e","s","t","m","e","n","t">>,
                <<"f","i","n","a","n","c","i","a","l">>,
                <<"a","c","c","o","u","n","t","i","n","g">>,
                <<"a","n","a","l","y","s","t">> >>])

\* industry=None; None and "" are both false in "if industry" and neither is a
\* key of INDUSTRIES
None == <<>>

\* country_info.get('search_terms', ['jobs'])
DefaultSearchTerms == << <<"j","o","b","s">> >>

\* country_info.get('job_sites', ['linkedin.com/jobs'])
DefaultJobSites == << <<"l","i","n","k","e","d","i","n",".","c","o","m","/","j","o","b","s">> >>

\* job_sites[:5]
SitesMax == 5

\* search_terms[:2]
TermsMax == 2

\* INDUSTRIES[industry]['keywords'][:3]
KeywordsMax == 3

\* job_sites[:3], for the industry queries
IndustrySitesMax == 3

\* list(set(queries))[:12]
QueriesMax == 12

DQ == <<"\"">>

Space == <<" ">>

SiteColon == <<" ","s","i","t","e",":">>

Apply == <<" ","a","p","p","l","y">>

Hiring == <<" ","h","i","r","i","n","g">>

ApplyNow == <<" ","\"","a","p","p","l","y"," ","n","o","w","\"">>

CareersHiring == <<" ","c","a","r","e","e","r","s"," ","h","i","r","i","n","g">>

WeAreHiring == <<" ","\"","w","e","'","r","e"," ","h","i","r","i","n","g","\"">>


\* f'"{s}"'
Quoted(s) == DQ \o s \o DQ

search_terms(country) ==
    IF country \in DOMAIN COUNTRIES THEN COUNTRIES[country].search_terms
    ELSE DefaultSearchTerms

job_sites(country) ==
    IF country \in DOMAIN COUNTRIES THEN COUNTRIES[country].job_sites
    ELSE DefaultJobSites

\* lines 474-476
location_query(country, city) ==
    IF city # <<>> THEN Quoted(city) \o Space \o Quoted(country) ELSE Quoted(country)

\* lines 479-481
industry_keywords(industry) ==
    IF industry # None /\ industry \in DOMAIN INDUSTRIES
    THEN Take(INDUSTRIES[industry].keywords, KeywordsMax)
    ELSE <<>>

\* the concatenation of a sequence of lists
RECURSIVE Concat(_)
Concat(lists) == IF lists = <<>> THEN <<>> ELSE Head(lists) \o Concat(Tail(lists))

\* lines 484-488: for site in job_sites[:5], for term in search_terms[:2]
site_queries(job_title, country, city) ==
    LET sites == Take(job_sites(country), SitesMax)
        terms == Take(search_terms(country), TermsMax)
    IN Concat([i \in 1..Len(sites) |->
                  [j \in 1..Len(terms) |->
                      Strip(Quoted(job_title) \o SiteColon \o sites[i] \o Space
                            \o location_query(country, city) \o Space \o terms[j]
                            \o Apply)]])

\* lines 491-495: for keyword in industry_keywords, for site in job_sites[:3]
industry_queries(job_title, country, city, industry) ==
    LET words == industry_keywords(industry)
        sites == Take(job_sites(country), IndustrySitesMax)
    IN Concat([i \in 1..Len(words) |->
                  [j \in 1..Len(sites) |->
                      Strip(Quoted(job_title) \o Space \o words[i] \o SiteColon
                            \o sites[j] \o Space \o location_query(country, city)
                            \o Hiring)]])

\* lines 498-502
general_queries(job_title, country, city) ==
    LET head == Quoted(job_title) \o Space \o location_query(country, city) IN
    << head \o Space \o search_terms(country)[1] \o ApplyNow,
       head \o CareersHiring,
       head \o WeAreHiring >>

\* queries, at line 506
queries(job_title, country, city, industry) ==
    site_queries(job_title, country, city)
    \o industry_queries(job_title, country, city, industry)
    \o general_queries(job_title, country, city)

queries_exception_unguarded(country, industry) ==
    IF industry # None /\ industry \notin DOMAIN INDUSTRIES THEN "KeyError"
    ELSE IF search_terms(country) = <<>> THEN "IndexError"
    ELSE "none"

\* the exception the call raises: INDUSTRIES[industry] (481) is evaluated past
\* the guard of 480 and raises KeyError for a missing key, search_terms[0]
\* (499) raises IndexError on an empty list
queries_exception(country, industry) ==
    IF /\ industry # None /\ industry \in DOMAIN INDUSTRIES
       /\ industry \notin DOMAIN INDUSTRIES
    THEN "KeyError"
    ELSE IF search_terms(country) = <<>> THEN "IndexError"
    ELSE "none"

\* set(queries)
SetOf(list) == {list[k] : k \in 1..Len(list)}

\* list(a_set): the elements in the order the set iterates them. A set of str
\* iterates in the order of its hash table, and str hashes are salted anew in
\* every interpreter process: every order of the elements is possible, and the
\* order is the same within one process
Orders(S) ==
    {p \in [1..Cardinality(S) -> S] : \A i, j \in 1..Cardinality(S) : i # j => p[i] # p[j]}

\* the elements of S in the order set_order lists them
ListOfSet(S, set_order) ==
    LET InS(q) == q \in S IN SelectSeq(set_order, InS)

\* create_country_job_queries(job_title, country, city, industry) in a process
\* whose sets iterate in set_order (506-507)
create_country_job_queries(job_title, country, city, industry, set_order) ==
    Take(ListOfSet(SetOf(queries(job_title, country, city, industry)), set_order),
         QueriesMax)

(***************************************************************************)
(* run_enhanced_job_scraper: relevance scoring and the sort (699-748).     *)
(* calculate_relevance_score is a closure: env holds the arguments of the  *)
(* enclosing call that it can read (job_title, country, city, industry).   *)
(***************************************************************************)
\* score += 25
ExactMatchBonus == 25

\* score += 8
WordInTitle == 8

\* score += 3
WordInSnippet == 3

\* len(word) > 2
WordMin == 2

\* score += 5
CountryBonus == 5

\* score += 4
KeywordBonus == 4

\* 'linkedin': score += 8
LinkedInBonus == 8

\* 'greenhouse', 'lever', 'company career': score += 6
AtsBonus == 6

\* 'indeed': score += 4
IndeedBonus == 4

\* len(job['title']) > 120
LongTitle == 120

\* score -= 8
LongTitlePenalty == 8

AtsSources ==
    << <<"g","r","e","e","n","h","o","u","s","e">>,
       <<"l","e","v","e","r">>,
       <<"c","o","m","p","a","n","y"," ","c","a","r","e","e","r">> >>

LinkedInLower == <<"l","i","n","k","e","d","i","n">>

IndeedLower == <<"i","n","d","e","e","d">>

\* s.split(): the words between runs of whitespace
RECURSIVE Words(_)
Words(s) ==
    LET t == LStrip(s) IN
    IF t = <<>> THEN <<>>
    ELSE IF Contains(t, Space)
         THEN <<Take(t, Find(t, Space))>> \o Words(Drop(t, Find(t, Space)))
         ELSE <<t>>

ExactMatchNegated(job, env) ==
    IF ~Contains(Lower(job.title), Lower(env.job_title)) THEN ExactMatchBonus ELSE 0

\* lines 706-708
ExactMatch(job, env) ==
    IF Contains(Lower(job.title), Lower(env.job_title)) THEN ExactMatchBonus ELSE 0

\* lines 711-717, for the words from the first on
RECURSIVE WordScore(_, _, _)
RECURSIVE WordScoreAnyLength(_, _, _)
WordScoreAnyLength(job_words, title_lower, snippet_lower) ==
    IF job_words = <<>> THEN 0
    ELSE LET word == Head(job_words) IN
         (IF Contains(title_lower, word) THEN WordInTitle
          ELSE IF Contains(snippet_lower, word) THEN WordInSnippet
          ELSE 0)
         + WordScoreAnyLength(Tail(job_words), title_lower, snippet_lower)

WordScore(job_words, title_lower, snippet_lower) ==
    IF job_words = <<>> THEN 0
    ELSE LET word == Head(job_words) IN
         (IF Len(word) > WordMin
          THEN IF Contains(title_lower, word) THEN WordInTitle
               ELSE IF Contains(snippet_lower, word) THEN WordInSnippet
               ELSE 0
          ELSE 0)
         + WordScore(Tail(job_words), title_lower, snippet_lower)

WordMatches(job, env) ==
    WordScore(Words(Lower(env.job_title)), Lower(job.title), Lower(job.snippet))

CityRelevance(job, env) ==
    IF \/ Contains(Lower(job.title), Lower(env.city))
       \/ Contains(Lower(job.snippet), Lower(env.city))
    THEN CountryBonus ELSE 0

\* lines 720-721
CountryRelevance(job, env) ==
    IF \/ Contains(Lower(job.title), Lower(env.country))
       \/ Contains(Lower(job.snippet), Lower(env.country))
    THEN CountryBonus ELSE 0

\* lines 726-728, for the keywords from the first on
RECURSIVE KeywordScore(_, _, _)
KeywordScore(keywords, title_lower, snippet_lower) ==
    IF keywords = <<>> THEN 0
    ELSE (IF \/ Contains(title_lower, Head(keywords))
             \/ Contains(snippet_lower, Head(keywords))
          THEN KeywordBonus ELSE 0)
         + KeywordScore(Tail(keywords), title_lower, snippet_lower)

\* lines 724-728
IndustryRelevance(job, env) ==
    IF env.industry # None /\ env.industry \in DOMAIN INDUSTRIES
    THEN KeywordScore(INDUSTRIES[env.industry].keywords,
                      Lower(job.title), Lower(job.snippet))
    ELSE 0

SourceBonusWithDefault(job) ==
    LET source_lower == Lower(job.source) IN
    IF Contains(source_lower, LinkedInLower) THEN LinkedInBonus
    ELSE IF AnyIn(AtsSources, source_lower) THEN AtsBonus
    ELSE IF Contains(source_lower, IndeedLower) THEN IndeedBonus
    ELSE 2

\* lines 731-737
SourceBonus(job) ==
    LET source_lower == Lower(job.source) IN
    IF Contains(source_lower, LinkedInLower) THEN LinkedInBonus
    ELSE IF AnyIn(AtsSources, source_lower) THEN AtsBonus
    ELSE IF Contains(source_lower, IndeedLower) THEN IndeedBonus
    ELSE 0

\* lines 740-741
LengthPenalty(job) == IF Len(job.title) > LongTitle THEN LongTitlePenalty ELSE 0

PyMaxSecond(a, b) == b

\* max(a, b)
PyMax(a, b) == IF b > a THEN b ELSE a

\* calculate_relevance_score(job) in a call of run_enhanced_job_scraper with
\* the arguments env
calculate_relevance_score(job, env) ==
    PyMax(0, ExactMatch(job, env) + WordMatches(job, env)
             + CountryRelevance(job, env) + IndustryRelevance(job, env)
             + SourceBonus(job) - LengthPenalty(job))

\* list.sort(key=..., reverse=True) computes the key of every item and then
\* sorts the items by key, largest first; the sort is stable, and with
\* reverse=True items of equal keys still keep their order.
\* x put into a list in that order, behind the items whose key is not smaller
RECURSIVE InsertByKey(_, _)
InsertByKey(sorted, x) ==
    IF sorted = <<>> THEN <<x>>
    ELSE IF Head(sorted).key >= x.key
         THEN <<Head(sorted)>> \o InsertByKey(Tail(sorted), x)
         ELSE <<x>> \o sorted

RECURSIVE InsertAll(_, _)
InsertAll(sorted, items) ==
    IF items = <<>> THEN sorted
    ELSE InsertAll(InsertByKey(sorted, Head(items)), Tail(items))

Reverse(s) == [k \in 1..Len(s) |-> s[Len(s) + 1 - k]]

SortAscendingThenReverse(items) ==
    LET Negated(xs) == [k \in 1..Len(xs) |-> [xs[k] EXCEPT !.key = 0 - xs[k].key]]
    IN Negated(Reverse(InsertAll(<<>>, Negated(items))))

\* items [key, job] sorted by list.sort(reverse=True)
list_sort(items) == InsertAll(<<>>, items)

\* the jobs with keys, as list.sort pairs them
Decorate(jobs, keys) == [k \in 1..Len(jobs) |-> [key |-> keys[k], job |-> jobs[k]]]

SortedJobsLowercasing(jobs, keys) ==
    LET sorted == list_sort(Decorate(jobs, keys)) IN
    [k \in 1..Len(sorted) |-> [sorted[k].job EXCEPT !.title = Lower(@)]]

\* final_jobs after final_jobs.sort(key=calculate_relevance_score, reverse=True)
SortedJobs(jobs, keys) ==
    LET sorted == list_sort(Decorate(jobs, keys)) IN
    [k \in 1..Len(sorted) |-> sorted[k].job]

(***************************************************************************)
(* Inputs of the checks.                                                   *)
(***************************************************************************)
\* results on one page
MaxResults == 2

DataJobs == <<"D","a","t","a"," ","J","o","b","s">>

FreeMoney ==
    <<"F","R","E","E"," ","M","O","N","E","Y"," ","W","O","R","K"," ",
      "F","R","O","M"," ","H","O","M","E","!","!">>

EasyMoney ==
    <<"E","a","s","y"," ","M","o","n","e","y"," ","H","i","r","i","n","g"," ","N","o","w">>

FreeJob == <<"F","r","e","e"," ","J","o","b">>

SeniorDataAnalyst ==
    <<"S","e","n","i","o","r"," ","D","a","t","a"," ","A","n","a","l","y","s","t">>

GreenhouseLink ==
    <<"h","t","t","p","s",":","/","/","b","o","a","r","d","s",".",
      "g","r","e","e","n","h","o","u","s","e",".","i","o","/","x","/",
      "j","o","b","s","/","1","2","3">>

IndeedLink ==
    <<"h","t","t","p","s",":","/","/","w","w","w",".","i","n","d","e","e","d",".",
      "c","o","m","/","x","/","1","2","3">>

SpamLink ==
    <<"h","t","t","p",":","/","/","s","p","a","m",".","e","x","a","m","p","l","e",".",
      "c","o","m">>

FtpLink ==
    <<"f","t","p",":","/","/","o","l","d",".","e","x","a","m","p","l","e",".",
      "c","o","m","/","j","o","b">>

RoleSnippet ==
    <<"d","a","t","a"," ","a","n","a","l","y","s","t"," ","r","o","l","e">>

HiringSnippet == <<"W","e"," ","a","r","e"," ","h","i","r","i","n","g">>

\* "" "USA" careers hiring
ShortQuery ==
    <<"\"","\""," ","\"","U","S","A","\""," ","c","a","r","e","e","r","s"," ",
      "h","i","r","i","n","g">>

\* "Data Analyst" site:linkedin.com/jobs "USA" jobs apply
LongQuery ==
    <<"\"","D","a","t","a"," ","A","n","a","l","y","s","t","\""," ",
      "s","i","t","e",":","l","i","n","k","e","d","i","n",".","c","o","m","/",
      "j","o","b","s"," ","\"","U","S","A","\""," ","j","o","b","s"," ",
      "a","p","p","l","y">>

Queries == {ShortQuery, LongQuery}

\* title lengths around the two limits of the quality filter
BoundaryLengths ==
    {TitleMin - 1, TitleMin, TitleMin + 1, TitleMax - 1, TitleMax, TitleMax + 1}

Raw(title, link, snippet) ==
    [has_h3 |-> TRUE, has_a |-> TRUE, title |-> title, link |-> link,
     has_snippet |-> TRUE, snippet |-> snippet, raises |-> FALSE]

RawNoSnippet(title, link) ==
    [Raw(title, link, <<>>) EXCEPT !.has_snippet = FALSE]

CareersLinkedInLink ==
    <<"h","t","t","p","s",":","/","/","c","a","r","e","e","r","s",".",
      "l","i","n","k","e","d","i","n",".","c","o","m","/","j","o","b","s","/","1">>

ExampleLink ==
    <<"h","t","t","p","s",":","/","/","e","x","a","m","p","l","e",".",
      "c","o","m","/","j","o","b","s","/","7">>

RawPool ==
    {RawNoSnippet(PadTo(DataJobs, n), GreenhouseLink) : n \in BoundaryLengths}
    \cup {Raw(SeniorDataAnalyst, l, RoleSnippet) : l \in {ExampleLink, CareersLinkedInLink, <<>>}}
    \cup {Raw(<<>>, GreenhouseLink, RoleSnippet)}
    \cup {RawNoSnippet(t, GreenhouseLink) :
              t \in {FreeMoney, EasyMoney, PadTo(FreeJob, TitleMax - 1)}}
    \cup {Raw(FreeMoney, SpamLink, <<>>)}
    \cup {Raw(SeniorDataAnalyst, l, RoleSnippet) : l \in {GreenhouseLink, IndeedLink, FtpLink}}
    \cup {Raw(SeniorDataAnalyst, IndeedLink, HiringSnippet),
          [Raw(SeniorDataAnalyst, GreenhouseLink, RoleSnippet) EXCEPT !.has_h3 = FALSE],
          [Raw(SeniorDataAnalyst, <<>>, RoleSnippet) EXCEPT !.has_a = FALSE],
          [Raw(SeniorDataAnalyst, GreenhouseLink, RoleSnippet) EXCEPT !.raises = TRUE]}

SeniorUpper ==
    <<"S","E","N","I","O","R"," ","D","A","T","A"," ","A","N","A","L","Y","S","T">>

AnalystAtAcme ==
    <<"D","a","t","a"," ","A","n","a","l","y","s","t"," ","a","t"," ","A","c","m","e">>

JobOpening ==
    <<"S","e","n","i","o","r"," ","D","a","t","a"," ","A","n","a","l","y","s","t"," ",
      "j","o","b"," ","o","p","e","n","i","n","g"," ">>

AtAcme == <<" ","a","t"," ","A","c","m","e">>

AtInitech == <<" ","a","t"," ","I","n","i","t","e","c","h">>

IndeedLink2 ==
    <<"h","t","t","p","s",":","/","/","w","w","w",".","i","n","d","e","e","d",".",
      "c","o","m","/","v","i","e","w","j","o","b","?","j","k","=","7","7">>

CareersLink ==
    <<"h","t","t","p","s",":","/","/","c","a","r","e","e","r","s",".",
      "a","c","m","e",".","c","o","m","/","j","o","b","s","/","1">>

\* jobs in all_jobs at the start of a deduplication
MaxJobs == 3

\* results whose jobs the deduplication is given: the same title from several
\* sources, the same title in another case and from another link, titles with
\* a company after " at ", and titles that agree on their first 50 characters
DedupRaws ==
    {Raw(SeniorDataAnalyst, GreenhouseLink, HiringSnippet),
     Raw(SeniorDataAnalyst, IndeedLink, HiringSnippet),
     Raw(SeniorUpper, IndeedLink2, HiringSnippet),
     Raw(SeniorDataAnalyst, CareersLink, HiringSnippet),
     Raw(SeniorDataAnalyst, ExampleLink, HiringSnippet),
     Raw(AnalystAtAcme, GreenhouseLink, HiringSnippet),
     Raw(AnalystAtAcme, IndeedLink, HiringSnippet),
     Raw(PadTo(JobOpening, HashPrefix) \o AtAcme, IndeedLink, HiringSnippet),
     Raw(PadTo(JobOpening, HashPrefix) \o AtInitech, IndeedLink2, HiringSnippet)}

\* the jobs enhanced_google_scraper makes of them
CandidatePool ==
    {ResultOutcome(r, LongQuery, 0).job :
         r \in {x \in DedupRaws : ResultOutcome(x, LongQuery, 0).kind = "emit"}}

\* queries of one search request (create_country_job_queries gives 4 to 12)
NumQueries == 4

QueryDigits == <<"1","2","3","4","5","6","7","8","9">>

\* the pages the fetches get, query after query: one job, the same job from
\* another site after a result whose processing raises, no result, and the
\* first job under another spelling with the same job from a company's
\* career page
PageCycle ==
    << <<Raw(SeniorDataAnalyst, GreenhouseLink, HiringSnippet)>>,
       <<[Raw(SeniorDataAnalyst, GreenhouseLink, RoleSnippet) EXCEPT !.raises = TRUE],
         Raw(SeniorUpper, IndeedLink2, HiringSnippet)>>,
       <<>>,
       <<Raw(SeniorUpper, GreenhouseLink, HiringSnippet),
         Raw(SeniorDataAnalyst, CareersLink, HiringSnippet)>> >>

PageOf(q) == PageCycle[((q - 1) % Len(PageCycle)) + 1]

SeqsUpTo(S, n) == UNION {[1..k -> S] : k \in 0..n}

DataAnalyst == <<"D","a","t","a"," ","A","n","a","l","y","s","t">>

SoftwareEngineer == <<"S","o","f","t","w","a","r","e"," ","E","n","g","i","n","e","e","r">>

\* a country that is no key of COUNTRIES
Brazil == <<"B","r","a","z","i","l">>

Pune == <<"P","u","n","e">>

IndiaSnippet == <<"H","i","r","i","n","g"," ","a"," ","s","o","f","t","w","a","r","e"," ","e","n","g","i","n","e","e","r"," ","i","n"," ","P","u","n","e",","," ","I","n","d","i","a">>

\* a title of more than 120 characters that holds no word of a job title
GarbledTitle == Repeat("z", LongTitle + 1)

JobTitles == {DataAnalyst, SoftwareEngineer, AnalystAtAcme}

Countries == {India, Brazil}

Cities == {<<>>, Pune}

Industries == {None, Technology}

\* an industry that is no key of INDUSTRIES
Gardening == <<"G","a","r","d","e","n","i","n","g">>

\* the requests create_country_job_queries is called with
QueryTitles == {DataAnalyst, <<>>}

QueryIndustries == {None, Technology, Gardening}

\* the largest set all of whose orders are followed
MaxPermuted == 4

\* the list without the later occurrences of its elements
RECURSIVE Distinct(_)
Distinct(list) ==
    IF list = <<>> THEN <<>>
    ELSE LET front == Distinct(SubSeq(list, 1, Len(list) - 1))
             last == list[Len(list)]
         IN IF last \in SetOf(front) THEN front ELSE Append(front, last)

Rotations(list) ==
    {[k \in 1..Len(list) |-> list[((k + r - 1) % Len(list)) + 1]] : r \in 0..(Len(list) - 1)}

\* the orders followed for the set of a list of queries: all of them for a
\* small set, and for a larger one the rotations of the order in which the
\* queries were built, a sample of the orders the set can have
SetOrders(list) ==
    IF Cardinality(SetOf(list)) <= MaxPermuted THEN Orders(SetOf(list))
    ELSE Rotations(Distinct(list))

\* calls of create_country_job_queries that are followed
MaxCalls == 2

\* jobs in final_jobs at the start of the ranking
MaxRanked == 3

\* results whose jobs the ranking is given: titles that hold the job title or
\* none of its words, from several sources, two of them of equal score
RankRaws ==
    {Raw(DataAnalyst, GreenhouseLink, RoleSnippet),
     Raw(SeniorDataAnalyst, IndeedLink, HiringSnippet),
     Raw(SeniorDataAnalyst, CareersLink, IndiaSnippet),
     Raw(GarbledTitle, ExampleLink, HiringSnippet),
     Raw(AnalystAtAcme, GreenhouseLink, RoleSnippet)}

RankPool ==
    {ResultOutcome(r, LongQuery, 0).job :
         r \in {x \in RankRaws : ResultOutcome(x, LongQuery, 0).kind = "emit"}}

\* jobs in final_jobs when the sources are compared
MaxSourced == 2

\* a link of the site an indicator stands for
SiteLink(indicator) ==
    <<"h","t","t","p","s",":","/","/">> \o indicator
        \o <<".","c","o","m","/","j","o","b","s","/","7">>

\* the same result from a site of every indicator and from a site of none
SourceRaws ==
    {Raw(SeniorDataAnalyst, SiteLink(domain_indicators[k][1]), HiringSnippet) :
         k \in 1..Len(domain_indicators)}
    \cup {Raw(SeniorDataAnalyst, ExampleLink, HiringSnippet)}

SourcePool == {ResultOutcome(r, LongQuery, 0).job : r \in SourceRaws}

(***************************************************************************)
(* State.                                                                  *)
(***************************************************************************)
VARIABLES
    now,        \* the minute datetime.now() reads during the request
    spc,        \* enhanced_google_scraper: "start", "loop", "done"
    squery,     \* its search_query
    page,       \* the results of the page it got
    si,         \* the index of the result the loop is at
    sjobs,      \* jobs
    sret,       \* what the call returned, or that it raised
    sfail,      \* the failure the call met before the loop ("none": none)
    semit,      \* for each result processed so far, whether it was appended
    pc,         \* run_enhanced_job_scraper: where the orchestrator is
    search_queries, \* the queries
    pages,      \* for each query, the results of the page its fetch gets
    fut,        \* for each query, its future: "unsubmitted", "pending",
                \* "running", "finished"
    fres,       \* for each finished future, what its call returned
    ffail,      \* for each finished future, whether its call met a failure
    order,      \* the queries as_completed has yielded, in order
    timed_out,  \* as_completed raised TimeoutError
    exc,        \* the exception leaving run_enhanced_job_scraper
    all_jobs,
    completed_queries,
    di,         \* the index of the job the deduplication loop is at
    unique_jobs,
    discards,   \* the duplicates met so far: [kept, discarded]
    final_jobs, \* list(unique_jobs.values()), as it is before the sort
    again,      \* the deduplication of final_jobs
    job_title,  \* the arguments of the request
    country,
    city,
    industry,
    set_order,  \* the order in which set(queries) iterates in this process
    calls,      \* the calls of create_country_job_queries so far
    keys,       \* the key list.sort computed for each job of final_jobs
    returned,   \* final_jobs after the sort: what the request returns
    max_retries, \* call_euri_api: its argument
    attempt,    \* the loop variable
    apc,        \* where the call is: "idle", "loop", "sleep", "returned", "raised"
    outcomes,   \* what each requests.post of the call met, in order
    slept,      \* the arguments of the calls of time.sleep, in order
    aret,       \* what the call returned, or the exception that left it
    chat_messages, \* st.session_state.chat_messages
    resume_data \* whether st.session_state.resume_data holds a resume

ScrapeVars == <<now, spc, squery, page, si, sjobs, sret, sfail, semit>>

FanOutVars ==
    <<pc, search_queries, pages, fut, fres, ffail, order, timed_out, exc,
      all_jobs, completed_queries>>

DedupVars == <<di, unique_jobs, discards, final_jobs, again>>

RequestVars == <<job_title, country, city, industry>>

QueryVars == <<set_order, calls>>

RankVars == <<keys, returned>>

ApiVars == <<max_retries, attempt, apc, outcomes, slept, aret>>

ChatVars == <<chat_messages, resume_data>>

\* the variables of the job search
SearchVars == <<ScrapeVars, FanOutVars, DedupVars, RequestVars, QueryVars, RankVars>>

vars == <<SearchVars, ApiVars, ChatVars>>

\* what calculate_relevance_score reads of the enclosing call
Env == [job_title |-> job_title, country |-> country, city |-> city,
        industry |-> industry]

NoReturn == [raised |-> FALSE, jobs |-> <<>>]

\* no call of enhanced_google_scraper is followed statement by statement
ScrapeIdle ==
    /\ now = 0
    /\ spc = "idle"
    /\ squery = <<>>
    /\ page = <<>>
    /\ si = 1
    /\ sjobs = <<>>
    /\ sret = NoReturn
    /\ sfail = "none"
    /\ semit = <<>>

\* no fan-out: the orchestrator is past the worker pool
FanOutIdle ==
    /\ search_queries = <<>>
    /\ pages = <<>>
    /\ fut = <<>>
    /\ fres = <<>>
    /\ ffail = <<>>
    /\ order = <<>>
    /\ timed_out = FALSE
    /\ exc = "none"
    /\ completed_queries = 0

DedupStart ==
    /\ di = 1
    /\ unique_jobs = <<>>
    /\ discards = {}
    /\ final_jobs = <<>>
    /\ again = [done |-> FALSE, jobs |-> <<>>]

\* a request for 'Data Analyst' in India, no city, any industry
DefaultRequest ==
    /\ job_title = DataAnalyst
    /\ country = India
    /\ city = <<>>
    /\ industry = None

\* create_country_job_queries is not followed
QueriesIdle ==
    /\ set_order = <<>>
    /\ calls = 0

RankStart ==
    /\ keys = <<>>
    /\ returned = <<>>

\* the values of Python the model tells apart: None and the strings
PyNone == [type |-> "NoneType", value |-> ""]

PyStr(text) == [type |-> "str", value |-> text]

\* no value yet
Unset == [type |-> "unset", value |-> ""]

\* an exception of the class cls
Raised(cls) == [type |-> cls, value |-> ""]

\* bool(v)
Truthy(v) == v.type = "str" /\ v.value # ""

\* max_retries=3 (224)
DefaultRetries == 3

\* no call of call_euri_api is followed
ApiIdle ==
    /\ max_retries = DefaultRetries
    /\ attempt = 0
    /\ apc = "idle"
    /\ outcomes = <<>>
    /\ slept = <<>>
    /\ aret = Unset

\* the chat is not in use
ChatIdle ==
    /\ chat_messages = <<>>
    /\ resume_data = FALSE

(***************************************************************************)
(* enhanced_google_scraper, one call, statement by statement.              *)
(***************************************************************************)
ScrapeInit ==
    /\ now = 0
    /\ spc = "start"
    /\ squery \in Queries
    /\ page = <<>>
    /\ si = 1
    /\ sjobs = <<>>
    /\ sret = NoReturn
    /\ sfail = "none"
    /\ semit = <<>>
    /\ pc = "idle"
    /\ all_jobs = <<>>
    /\ FanOutIdle
    /\ DedupStart
    /\ DefaultRequest
    /\ QueriesIdle
    /\ RankStart
    /\ ApiIdle
    /\ ChatIdle

\* lines 512-524 raise: the handlers of 616-621
ScrapeFail ==
    /\ spc = "start"
    /\ \E f \in Failures \ {"none"} :
           /\ sfail' = f
           /\ sret' = Propagate(ExceptionClass(f))
    /\ spc' = "done"
    /\ UNCHANGED <<now, squery, page, si, sjobs, semit>>
    /\ UNCHANGED <<FanOutVars, DedupVars>>
    /\ UNCHANGED <<RequestVars, ApiVars, ChatVars, QueryVars, RankVars>>

\* lines 512-539 succeed: the selectors give the results of the page
ScrapeParsed ==
    /\ spc = "start"
    /\ page' \in SeqsUpTo(RawPool, MaxResults)
    /\ spc' = "loop"
    /\ UNCHANGED <<now, squery, si, sjobs, sret, sfail, semit>>
    /\ UNCHANGED <<FanOutVars, DedupVars>>
    /\ UNCHANGED <<RequestVars, ApiVars, ChatVars, QueryVars, RankVars>>

\* one iteration of the loop of 541-612
ScrapeResult ==
    /\ spc = "loop"
    /\ si <= Len(Take(page, ResultsMax))
    /\ LET o == ResultOutcome(page[si], squery, now) IN
       IF o.kind = "raise" /\ ~InnerCatches("Exception")
       THEN /\ sret' = Propagate("Exception")
            /\ spc' = "done"
            /\ UNCHANGED <<si, sjobs, semit>>
       ELSE /\ sjobs' = IF o.kind = "emit" THEN Append(sjobs, o.job) ELSE sjobs
            /\ semit' = Append(semit, o.kind = "emit")
            /\ si' = si + 1
            /\ UNCHANGED <<spc, sret>>
    /\ UNCHANGED <<now, squery, page, sfail>>
    /\ UNCHANGED <<FanOutVars, DedupVars>>
    /\ UNCHANGED <<RequestVars, ApiVars, ChatVars, QueryVars, RankVars>>

\* return jobs (614)
ScrapeReturn ==
    /\ spc = "loop"
    /\ si > Len(Take(page, ResultsMax))
    /\ sret' = [raised |-> FALSE, jobs |-> sjobs]
    /\ spc' = "done"
    /\ UNCHANGED <<now, squery, page, si, sjobs, sfail, semit>>
    /\ UNCHANGED <<FanOutVars, DedupVars>>
    /\ UNCHANGED <<RequestVars, ApiVars, ChatVars, QueryVars, RankVars>>

ScrapeNext == ScrapeFail \/ ScrapeParsed \/ ScrapeResult \/ ScrapeReturn

SpecScrape == ScrapeInit /\ [][ScrapeNext]_vars

(***************************************************************************)
(* run_enhanced_job_scraper: the deduplication loop and what follows.      *)
(***************************************************************************)
\* one iteration of "for job in all_jobs" (668-695)
DedupStep ==
    /\ pc = "dedup"
    /\ di <= Len(all_jobs)
    /\ LET job == all_jobs[di]
           after == DedupInsert(unique_jobs, job)
       IN /\ unique_jobs' = after
          /\ discards' =
                 IF Len(after) = Len(unique_jobs)
                 THEN LET k == KeyIndex(unique_jobs, job_hash(job)) IN
                      discards \cup
                          {[kept |-> after[k].job,
                            discarded |-> IF after[k].job = unique_jobs[k].job
                                          THEN job ELSE unique_jobs[k].job]}
                 ELSE discards
    /\ di' = di + 1
    /\ UNCHANGED <<final_jobs, again>>
    /\ UNCHANGED <<ScrapeVars, FanOutVars>>
    /\ UNCHANGED <<RequestVars, ApiVars, ChatVars, QueryVars, RankVars>>

\* final_jobs = list(unique_jobs.values()) (697)
DedupFinish ==
    /\ pc = "dedup"
    /\ di > Len(all_jobs)
    /\ final_jobs' = Values(unique_jobs)
    /\ pc' = "rank"
    /\ UNCHANGED <<di, unique_jobs, discards, again>>
    /\ UNCHANGED <<ScrapeVars, search_queries, pages, fut, fres, ffail, order,
                   timed_out, exc, all_jobs, completed_queries>>
    /\ UNCHANGED <<RequestVars, ApiVars, ChatVars, QueryVars, RankVars>>

\* lines 667-697 once more, on final_jobs
Rededup ==
    /\ pc = "rank"
    /\ ~again.done
    /\ again' = [done |-> TRUE, jobs |-> Deduplicate(final_jobs)]
    /\ UNCHANGED <<di, unique_jobs, discards, final_jobs>>
    /\ UNCHANGED <<ScrapeVars, FanOutVars>>
    /\ UNCHANGED <<RequestVars, ApiVars, ChatVars, QueryVars, RankVars>>

DedupInit ==
    /\ ScrapeIdle
    /\ FanOutIdle
    /\ pc = "dedup"
    /\ all_jobs \in SeqsUpTo(CandidatePool, MaxJobs)
    /\ DedupStart
    /\ DefaultRequest
    /\ QueriesIdle
    /\ RankStart
    /\ ApiIdle
    /\ ChatIdle

DedupNext == DedupStep \/ DedupFinish \/ Rededup

SpecDedup == DedupInit /\ [][DedupNext]_vars

(***************************************************************************)
(* run_enhanced_job_scraper: the ranking (699-748).                        *)
(***************************************************************************)
\* final_jobs.sort(key=calculate_relevance_score, ...) computes the keys (746)
ScoreJobs ==
    /\ pc = "rank"
    /\ keys' = [k \in 1..Len(final_jobs) |->
                    calculate_relevance_score(final_jobs[k], Env)]
    /\ pc' = "sort"
    /\ UNCHANGED returned
    /\ UNCHANGED <<search_queries, pages, fut, fres, ffail, order, timed_out, exc,
                   all_jobs, completed_queries>>
    /\ UNCHANGED <<ScrapeVars, DedupVars, RequestVars, ApiVars, ChatVars, QueryVars>>

\* ... sorts by them (746), and final_jobs is returned (748)
SortJobs ==
    /\ pc = "sort"
    /\ returned' = SortedJobs(final_jobs, keys)
    /\ pc' = "return"
    /\ UNCHANGED keys
    /\ UNCHANGED <<search_queries, pages, fut, fres, ffail, order, timed_out, exc,
                   all_jobs, completed_queries>>
    /\ UNCHANGED <<ScrapeVars, DedupVars, RequestVars, ApiVars, ChatVars, QueryVars>>

\* the ranking of a deduplicated list, for a request
RankInit ==
    /\ ScrapeIdle
    /\ FanOutIdle
    /\ pc = "rank"
    /\ final_jobs \in {jobs \in SeqsUpTo(RankPool, MaxRanked) : Deduplicate(jobs) = jobs}
    /\ all_jobs = final_jobs
    /\ di = Len(all_jobs) + 1
    /\ unique_jobs = DedupAll(<<>>, all_jobs)
    /\ discards = {}
    /\ again = [done |-> FALSE, jobs |-> <<>>]
    /\ job_title \in JobTitles
    /\ country \in Countries
    /\ city \in Cities
    /\ industry \in Industries
    /\ QueriesIdle
    /\ RankStart
    /\ ApiIdle
    /\ ChatIdle

RankNext == ScoreJobs \/ SortJobs

SpecRank == RankInit /\ [][RankNext]_vars

\* the ranking of jobs that differ in their site only
SourcesInit ==
    /\ ScrapeIdle
    /\ FanOutIdle
    /\ pc = "rank"
    /\ final_jobs \in {jobs \in SeqsUpTo(SourcePool, MaxSourced) : Deduplicate(jobs) = jobs}
    /\ all_jobs = final_jobs
    /\ di = Len(all_jobs) + 1
    /\ unique_jobs = DedupAll(<<>>, all_jobs)
    /\ discards = {}
    /\ again = [done |-> FALSE, jobs |-> <<>>]
    /\ DefaultRequest
    /\ QueriesIdle
    /\ RankStart
    /\ ApiIdle
    /\ ChatIdle

SpecSources == SourcesInit /\ [][RankNext]_vars

(***************************************************************************)
(* create_country_job_queries, called in one interpreter process and       *)
(* another.                                                                *)
(***************************************************************************)
\* search_queries = create_country_job_queries(...) (627)
CallQueries ==
    /\ pc = "queries"
    /\ calls < MaxCalls
    /\ exc' = queries_exception(country, industry)
    /\ search_queries' =
           IF queries_exception(country, industry) = "none"
           THEN create_country_job_queries(job_title, country, city, industry, set_order)
           ELSE search_queries
    /\ calls' = calls + 1
    /\ UNCHANGED set_order
    /\ UNCHANGED <<pc, pages, fut, fres, ffail, order, timed_out,
                   all_jobs, completed_queries>>
    /\ UNCHANGED <<ScrapeVars, DedupVars, RequestVars, ApiVars, ChatVars, RankVars>>

\* the application is started again: str hashes are salted anew
Restart ==
    /\ pc = "queries"
    /\ set_order' \in SetOrders(queries(job_title, country, city, industry))
    /\ UNCHANGED calls
    /\ UNCHANGED <<FanOutVars, ScrapeVars, DedupVars, RequestVars, ApiVars, ChatVars, RankVars>>

\* requests with and without a job title, a city and an industry, for a
\* country of COUNTRIES and for one with the default site and search term
QueriesInit ==
    /\ ScrapeIdle
    /\ FanOutIdle
    /\ pc = "queries"
    /\ all_jobs = <<>>
    /\ DedupStart
    /\ job_title \in QueryTitles
    /\ country \in Countries
    /\ city \in Cities
    /\ industry \in QueryIndustries
    /\ set_order \in SetOrders(queries(job_title, country, city, industry))
    /\ calls = 0
    /\ RankStart
    /\ ApiIdle
    /\ ChatIdle

QueriesNext == CallQueries \/ Restart

SpecQueries == QueriesInit /\ [][QueriesNext]_vars

(***************************************************************************)
(* run_enhanced_job_scraper: the fan-out (629-664).                        *)
(***************************************************************************)
QueryIds == 1..Len(search_queries)

Running == {q \in QueryIds : fut[q] = "running"}

Unfinished == {q \in QueryIds : fut[q] # "finished"}

Yielded == {order[k] : k \in 1..Len(order)}

\* executor.submit(enhanced_google_scraper, query, time_filter) (639-641)
Submit ==
    /\ pc = "submit"
    /\ \E q \in QueryIds :
           /\ fut[q] = "unsubmitted"
           /\ \A p \in 1..(q - 1) : fut[p] # "unsubmitted"
           /\ fut' = [fut EXCEPT ![q] = "pending"]
           /\ pc' = IF q = Len(search_queries) THEN "collect" ELSE "submit"
    /\ UNCHANGED <<search_queries, pages, fres, ffail, order, timed_out, exc,
                   all_jobs, completed_queries>>
    /\ UNCHANGED <<ScrapeVars, DedupVars>>
    /\ UNCHANGED <<RequestVars, ApiVars, ChatVars, QueryVars, RankVars>>

WorkerStartUnbounded ==
    /\ \E q \in QueryIds :
           /\ fut[q] = "pending"
           /\ \A p \in 1..(q - 1) : fut[p] # "pending"
           /\ fut' = [fut EXCEPT ![q] = "running"]
    /\ UNCHANGED <<pc, search_queries, pages, fres, ffail, order, timed_out, exc,
                   all_jobs, completed_queries>>
    /\ UNCHANGED <<ScrapeVars, DedupVars>>
    /\ UNCHANGED <<RequestVars, ApiVars, ChatVars, QueryVars, RankVars>>

\* a free worker of the pool takes the oldest queued call
WorkerStart ==
    /\ Cardinality(Running) < max_workers
    /\ \E q \in QueryIds :
           /\ fut[q] = "pending"
           /\ \A p \in 1..(q - 1) : fut[p] # "pending"
           /\ fut' = [fut EXCEPT ![q] = "running"]
    /\ UNCHANGED <<pc, search_queries, pages, fres, ffail, order, timed_out, exc,
                   all_jobs, completed_queries>>
    /\ UNCHANGED <<ScrapeVars, DedupVars>>
    /\ UNCHANGED <<RequestVars, ApiVars, ChatVars, QueryVars, RankVars>>

WorkerFinishAppending ==
    /\ \E q \in QueryIds, f \in Failures :
           LET r == enhanced_google_scraper(search_queries[q],
                        [failure |-> f, results |-> pages[q]], now)
           IN /\ fut[q] = "running"
              /\ fut' = [fut EXCEPT ![q] = "finished"]
              /\ ffail' = [ffail EXCEPT ![q] = (f # "none")]
              /\ fres' = [fres EXCEPT ![q] = r]
              /\ all_jobs' = all_jobs \o r.jobs
    /\ UNCHANGED <<pc, search_queries, pages, order, timed_out, exc,
                   completed_queries>>
    /\ UNCHANGED <<ScrapeVars, DedupVars>>
    /\ UNCHANGED <<RequestVars, ApiVars, ChatVars, QueryVars, RankVars>>

\* a worker's call of enhanced_google_scraper ends and sets its future
WorkerFinish ==
    /\ \E q \in QueryIds, f \in Failures :
           /\ fut[q] = "running"
           /\ fut' = [fut EXCEPT ![q] = "finished"]
           /\ ffail' = [ffail EXCEPT ![q] = (f # "none")]
           /\ fres' = [fres EXCEPT ![q] =
                           enhanced_google_scraper(search_queries[q],
                               [failure |-> f, results |-> pages[q]], now)]
    /\ UNCHANGED <<pc, search_queries, pages, order, timed_out, exc,
                   all_jobs, completed_queries>>
    /\ UNCHANGED <<ScrapeVars, DedupVars>>
    /\ UNCHANGED <<RequestVars, ApiVars, ChatVars, QueryVars, RankVars>>

CollectResubmitting ==
    /\ pc = "collect"
    /\ \E q \in QueryIds \ Yielded :
           /\ fut[q] = "finished"
           /\ IF fres[q].raised \/ fres[q].jobs = <<>>
              THEN /\ fut' = [fut EXCEPT ![q] = "pending"]
                   /\ UNCHANGED <<order, all_jobs>>
              ELSE /\ order' = Append(order, q)
                   /\ all_jobs' = CollectJobs(all_jobs, fres[q].jobs)
                   /\ UNCHANGED fut
    /\ completed_queries' = completed_queries + 1
    /\ UNCHANGED <<pc, search_queries, pages, fres, ffail, timed_out, exc>>
    /\ UNCHANGED <<ScrapeVars, DedupVars>>
    /\ UNCHANGED <<RequestVars, ApiVars, ChatVars, QueryVars, RankVars>>

\* as_completed yields a finished future: the body of the loop (644-662);
\* future.result() gives the call's list or raises what the call raised, which
\* "except Exception" catches
Collect ==
    /\ pc = "collect"
    /\ \E q \in QueryIds \ Yielded :
           /\ fut[q] = "finished"
           /\ order' = Append(order, q)
           /\ all_jobs' = IF fres[q].raised THEN all_jobs
                          ELSE CollectJobs(all_jobs, fres[q].jobs)
    /\ completed_queries' = completed_queries + 1
    /\ UNCHANGED <<pc, search_queries, pages, fut, fres, ffail, timed_out, exc>>
    /\ UNCHANGED <<ScrapeVars, DedupVars>>
    /\ UNCHANGED <<RequestVars, ApiVars, ChatVars, QueryVars, RankVars>>

\* as_completed has yielded every future: the loop ends
CollectDone ==
    /\ pc = "collect"
    /\ Yielded = QueryIds
    /\ pc' = "shutdown"
    /\ UNCHANGED <<search_queries, pages, fut, fres, ffail, order, timed_out, exc,
                   all_jobs, completed_queries>>
    /\ UNCHANGED <<ScrapeVars, DedupVars>>
    /\ UNCHANGED <<RequestVars, ApiVars, ChatVars, QueryVars, RankVars>>

\* 150 seconds have passed and as_completed still waits for a future (one
\* that is queued or running, or that finished since it last looked):
\* it raises TimeoutError in the for statement (643), outside the try of 653
BatchTimeout ==
    /\ pc = "collect"
    /\ Yielded # QueryIds
    /\ timed_out' = TRUE
    /\ exc' = "TimeoutError"
    /\ pc' = "shutdown"
    /\ UNCHANGED <<search_queries, pages, fut, fres, ffail, order,
                   all_jobs, completed_queries>>
    /\ UNCHANGED <<ScrapeVars, DedupVars>>
    /\ UNCHANGED <<RequestVars, ApiVars, ChatVars, QueryVars, RankVars>>

PoolExitWithoutWaiting ==
    /\ pc = "shutdown"
    /\ pc' = "dedup"
    /\ UNCHANGED <<search_queries, pages, fut, fres, ffail, order, timed_out, exc,
                   all_jobs, completed_queries>>
    /\ UNCHANGED <<ScrapeVars, DedupVars>>
    /\ UNCHANGED <<RequestVars, ApiVars, ChatVars, QueryVars, RankVars>>

\* the end of the with block (636): ThreadPoolExecutor.__exit__ is
\* shutdown(wait=True), which returns when every submitted call has run;
\* then the pending exception goes on, or line 664 follows
PoolExit ==
    /\ pc = "shutdown"
    /\ Unfinished = {}
    /\ pc' = IF exc = "none" THEN "dedup" ELSE "raised"
    /\ UNCHANGED <<search_queries, pages, fut, fres, ffail, order, timed_out, exc,
                   all_jobs, completed_queries>>
    /\ UNCHANGED <<ScrapeVars, DedupVars>>
    /\ UNCHANGED <<RequestVars, ApiVars, ChatVars, QueryVars, RankVars>>

Init ==
    /\ ScrapeIdle
    /\ pc = "submit"
    /\ search_queries = [q \in 1..NumQueries |-> Append(LongQuery, QueryDigits[q])]
    /\ pages = [q \in 1..NumQueries |-> PageOf(q)]
    /\ fut = [q \in 1..NumQueries |-> "unsubmitted"]
    /\ fres = [q \in 1..NumQueries |-> NoReturn]
    /\ ffail = [q \in 1..NumQueries |-> FALSE]
    /\ order = <<>>
    /\ timed_out = FALSE
    /\ exc = "none"
    /\ all_jobs = <<>>
    /\ completed_queries = 0
    /\ DedupStart
    /\ DefaultRequest
    /\ QueriesIdle
    /\ RankStart
    /\ ApiIdle
    /\ ChatIdle

Next ==
    \/ Submit
    \/ WorkerStart
    \/ WorkerFinish
    \/ Collect
    \/ CollectDone
    \/ BatchTimeout
    \/ PoolExit
    \/ DedupStep
    \/ DedupFinish
    \/ ScoreJobs
    \/ SortJobs

Spec == Init /\ [][Next]_vars

(***************************************************************************)
(* call_euri_api (224-264).                                                *)
(***************************************************************************)
\* What one requests.post and the reading of its response meet: the post
\* times out or fails to connect, raise_for_status finds an error status,
\* the body is no JSON, the JSON has no key 'choices', 'choices' is an empty
\* list, 'choices' is null, or the content is there (a text, or "").
Replies ==
    {"timeout", "connection_error", "http_error", "not_json", "no_choices",
     "empty_choices", "null_choices", "answer", "empty_answer"}

AnswerText == "Tailor your summary to the role."

\* result['choices'][0]['message']['content'] of a reply that has it
ReplyContent(reply) == IF reply = "answer" THEN AnswerText ELSE ""

\* the exception lines 238-247 raise on the reply ("none": none).
\* requests raises requests.exceptions.JSONDecodeError, a RequestException,
\* from response.json(); None[0] raises TypeError
ReplyException(reply) ==
    CASE reply = "timeout" -> "Timeout"
      [] reply \in {"connection_error", "http_error", "not_json"} -> "RequestException"
      [] reply = "no_choices" -> "KeyError"
      [] reply = "empty_choices" -> "IndexError"
      [] reply = "null_choices" -> "TypeError"
      [] OTHER -> "none"

\* the except clause that takes an exception of the class cls (249-261)
ApiHandler(cls) ==
    CASE cls = "Timeout" -> "retry"
      [] cls = "RequestException" -> "return None"
      [] cls \in {"KeyError", "IndexError"} -> "return None"
      [] OTHER -> "propagate"

\* 2 ** n
RECURSIVE Pow2(_)
Pow2(n) == IF n = 0 THEN 1 ELSE 2 * Pow2(n - 1)

\* one iteration of "for attempt in range(max_retries)" up to its return, its
\* raise, its sleep or its end (237-261)
ApiPost ==
    /\ apc = "loop"
    /\ attempt < max_retries
    /\ \E reply \in Replies :
           LET cls == ReplyException(reply) IN
           /\ outcomes' = Append(outcomes, reply)
           /\ IF cls = "none"
              THEN /\ aret' = PyStr(ReplyContent(reply))
                   /\ apc' = "returned"
                   /\ UNCHANGED attempt
              ELSE IF ApiHandler(cls) = "retry"
              THEN /\ IF attempt < max_retries - 1
                      THEN apc' = "sleep" /\ UNCHANGED attempt
                      ELSE apc' = "loop" /\ attempt' = attempt + 1
                   /\ UNCHANGED aret
              ELSE IF ApiHandler(cls) = "return None"
              THEN /\ aret' = PyNone
                   /\ apc' = "returned"
                   /\ UNCHANGED attempt
              ELSE /\ aret' = Raised(cls)
                   /\ apc' = "raised"
                   /\ UNCHANGED attempt
    /\ UNCHANGED <<max_retries, slept>>
    /\ UNCHANGED <<SearchVars, ChatVars>>

\* time.sleep(2 ** attempt) (252), and the next iteration
ApiSleep ==
    /\ apc = "sleep"
    /\ slept' = Append(slept, Pow2(attempt))
    /\ attempt' = attempt + 1
    /\ apc' = "loop"
    /\ UNCHANGED <<max_retries, outcomes, aret>>
    /\ UNCHANGED <<SearchVars, ChatVars>>

\* the loop is over: return None (263)
ApiExhausted ==
    /\ apc = "loop"
    /\ attempt >= max_retries
    /\ aret' = PyNone
    /\ apc' = "returned"
    /\ UNCHANGED <<max_retries, attempt, outcomes, slept>>
    /\ UNCHANGED <<SearchVars, ChatVars>>

\* the largest max_retries a call is given
MaxRetries == 5

ApiInit ==
    /\ ScrapeIdle
    /\ FanOutIdle
    /\ pc = "idle"
    /\ all_jobs = <<>>
    /\ DedupStart
    /\ DefaultRequest
    /\ QueriesIdle
    /\ RankStart
    /\ max_retries \in 0..MaxRetries
    /\ attempt = 0
    /\ apc = "loop"
    /\ outcomes = <<>>
    /\ slept = <<>>
    /\ aret = Unset
    /\ ChatIdle

ApiNext == ApiPost \/ ApiSleep \/ ApiExhausted

SpecApi == ApiInit /\ [][ApiNext]_vars

\* call_euri_api(prompt) when the posts meet replies, one after the other:
\* what it returns, or the exception that leaves it
RECURSIVE ApiRun(_, _, _)
ApiRun(replies, n, retries) ==
    IF n >= retries THEN PyNone
    ELSE LET cls == ReplyException(replies[n + 1]) IN
         IF cls = "none" THEN PyStr(ReplyContent(replies[n + 1]))
         ELSE IF ApiHandler(cls) = "retry" THEN ApiRun(replies, n + 1, retries)
         ELSE IF ApiHandler(cls) = "return None" THEN PyNone
         ELSE Raised(cls)

call_euri_api(replies) == ApiRun(replies, 0, DefaultRetries)

(***************************************************************************)
(* chat_about_resume (751-795) and render_career_chat (1048-1128).         *)
(***************************************************************************)
UploadFirst ==
    "I'd be happy to help you with your resume! Please upload your resume first in the Resume Analyzer section, and then I can answer specific questions about it."

\* chat_about_resume(user_message, resume_data) when the posts of its call of
\* call_euri_api meet replies
chat_about_resume(user_message, resume, replies) ==
    IF ~resume THEN PyStr(UploadFirst) ELSE call_euri_api(replies)

error_msg == "I'm having trouble connecting to the AI service. Please try again."

\* the messages the buttons q1 to q6 append (1100-1121)
SuggestedQuestions ==
    <<"How can I improve my resume?",
      "Based on my experience, what salary range should I expect?",
      "What interview tips can you give me based on my background?",
      "What skills should I learn to advance my career?",
      "I'm considering a career change. What advice do you have?",
      "What are the current trends in my industry?">>

Message(role, content) == [role |-> role, content |-> content]

\* what the user types
Prompts == {"How do I negotiate salary?", "Is my resume too long?"}

\* the replies the posts of one call meet
ChatReplies ==
    [1..DefaultRetries -> {"timeout", "http_error", "null_choices", "answer", "empty_answer"}]

\* messages in the history
MaxChat == 4

\* a run of the script with a text submitted in st.chat_input (1075-1091):
\* an exception that leaves chat_about_resume ends the run
ChatInput ==
    /\ Len(chat_messages) + 2 <= MaxChat
    /\ \E prompt \in Prompts, replies \in ChatReplies :
           LET with_user == Append(chat_messages, Message("user", prompt))
               response == chat_about_resume(prompt, resume_data, replies)
           IN chat_messages' =
                  IF response.type \notin {"str", "NoneType"} THEN with_user
                  ELSE IF Truthy(response)
                  THEN Append(with_user, Message("assistant", response.value))
                  ELSE Append(with_user, Message("assistant", error_msg))
    /\ UNCHANGED resume_data
    /\ UNCHANGED <<SearchVars, ApiVars>>

\* a run of the script with one of the buttons q1 to q6 clicked, and the run
\* st.rerun() starts (1094-1122): the buttons are there when the history is
\* empty
SuggestedQuestion ==
    /\ chat_messages = <<>>
    /\ \E q \in 1..Len(SuggestedQuestions) :
           chat_messages' = Append(chat_messages, Message("user", SuggestedQuestions[q]))
    /\ UNCHANGED resume_data
    /\ UNCHANGED <<SearchVars, ApiVars>>

\* a run of the script with 'Clear Chat' clicked, and the run st.rerun()
\* starts (1125-1128)
ClearChat ==
    /\ chat_messages # <<>>
    /\ chat_messages' = <<>>
    /\ UNCHANGED resume_data
    /\ UNCHANGED <<SearchVars, ApiVars>>

ChatInit ==
    /\ ScrapeIdle
    /\ FanOutIdle
    /\ pc = "idle"
    /\ all_jobs = <<>>
    /\ DedupStart
    /\ DefaultRequest
    /\ QueriesIdle
    /\ RankStart
    /\ ApiIdle
    /\ chat_messages = <<>>
    /\ resume_data \in BOOLEAN

ChatNext == ChatInput \/ SuggestedQuestion \/ ClearChat

SpecChat == ChatInit /\ [][ChatNext]_vars

(***************************************************************************)
(* Properties.                                                             *)
(***************************************************************************)
\* Scenario A: two jobs titled 'Senior Data Analyst' with the same snippet,
\* one from Greenhouse and one from Indeed, in either order
ScenarioA(jobs) ==
    /\ Len(jobs) = 2
    /\ jobs[1].title = SeniorDataAnalyst
    /\ jobs[2].title = SeniorDataAnalyst
    /\ jobs[1].snippet = jobs[2].snippet
    /\ {jobs[1].source, jobs[2].source} = {Greenhouse, Indeed}

\* C1: given the two jobs of Scenario A, in either order, the deduplication
\* leaves exactly one job, the one from Greenhouse.
C1_ScenarioAKeepsGreenhouse ==
    (pc = "rank" /\ ScenarioA(all_jobs))
        => (Len(final_jobs) = 1 /\ final_jobs[1].source = Greenhouse)

\* the ranking of sources the merge rule is stated with: Greenhouse/Workday >
\* Lever > LinkedIn > Company Career Page > Indeed > Glassdoor > Monster > others
SourcePriority(source) ==
    CASE source \in {Greenhouse, Workday} -> 7
      [] source = Lever -> 6
      [] source = LinkedIn -> 5
      [] source = CompanyCareerPage -> 4
      [] source = Indeed -> 3
      [] source = Glassdoor -> 2
      [] source = Monster -> 1
      [] OTHER -> 0

\* C2: whenever the deduplication drops one job for another of the same key,
\* the source of the job kept ranks at least as high as that of the job dropped.
C2_KeptHasPriority ==
    \A d \in discards :
        SourcePriority(d.kept.source) >= SourcePriority(d.discarded.source)

\* two different jobs of one key met, and one was dropped
C2_Witness ==
    /\ pc = "rank"
    /\ \E d \in discards : d.kept.link # d.discarded.link

\* C3: when the batch timeout elapses with fetches outstanding,
\* run_enhanced_job_scraper does not raise.
C3_TimeoutDoesNotRaise == timed_out => pc # "raised"

\* C4: when the batch timeout is reached the orchestrator does not wait for the
\* outstanding fetches: at the end of the worker pool it can go on whatever
\* state they are in.
C4_TimeoutAbandonsFetches == (pc = "shutdown" /\ timed_out) => ENABLED PoolExit

\* what the fetch of query q hands over: nothing when it met a failure, the
\* jobs of its page otherwise
ExpectedJobs(q) ==
    IF ffail[q] THEN <<>>
    ELSE enhanced_google_scraper(search_queries[q],
             [failure |-> "none", results |-> pages[q]], now).jobs

RECURSIVE ExpectedAll(_)
ExpectedAll(ord) ==
    IF ord = <<>> THEN <<>> ELSE ExpectedJobs(Head(ord)) \o ExpectedAll(Tail(ord))

\* C5: a query whose fetch fails adds no job, and the fetch of every other
\* query is run and its jobs are collected: all_jobs holds, in the order the
\* futures were yielded, nothing for a failed query and the jobs of every other
\* one; when the loop ends without the batch timeout every query was fetched and
\* yielded; without the batch timeout nothing is raised.
C5_FailuresAreLocal ==
    /\ all_jobs = ExpectedAll(order)
    /\ pc \in {"dedup", "rank"} =>
           /\ Yielded = QueryIds
           /\ \A q \in QueryIds : fut[q] = "finished"
    /\ ~timed_out => (exc = "none" /\ pc # "raised")

\* the loop ended with failed and successful fetches and collected jobs
C5_Witness ==
    /\ pc = "dedup"
    /\ \E q \in QueryIds : ffail[q]
    /\ \E q \in QueryIds : ~ffail[q] /\ ExpectedJobs(q) # <<>>
    /\ all_jobs # <<>>

\* the results of a page that pass when processed alone, as <<title, link>>
KeptResults(results, query) ==
    LET Emits(r) == ResultOutcome(r, query, 0).kind = "emit"
        kept == SelectSeq(results, Emits)
    IN [k \in 1..Len(kept) |-> <<kept[k].title, kept[k].link>>]

TitlesAndLinks(jobs) == [k \in 1..Len(jobs) |-> <<jobs[k].title, jobs[k].link>>]

\* C6: no exception leaves enhanced_google_scraper; a failure of URL building,
\* the GET, the status check or parsing gives []; a result whose processing
\* raises is dropped and the other results are kept.
C6_NoExceptionEscapes ==
    spc = "done" =>
        /\ ~sret.raised
        /\ sfail # "none" => sret.jobs = <<>>
        /\ sfail = "none" => TitlesAndLinks(sret.jobs) = KeptResults(page, squery)

\* a page with a result that raised and another that was kept
C6_Witness ==
    /\ spc = "done"
    /\ sfail = "none"
    /\ \E k \in 1..Len(page) : page[k].raises
    /\ sret.jobs # <<>>

\* (normalized title prefix, company token, source)
KeyTuple(job) ==
    <<Take(Strip(Lower(job.title)), HashPrefix), company_identifier(job), job.source>>

\* C7: no two jobs of final_jobs have the same (normalized title prefix,
\* company token, source).
C7_OnePerKey ==
    \A i, j \in 1..Len(final_jobs) :
        i # j => KeyTuple(final_jobs[i]) # KeyTuple(final_jobs[j])

\* duplicates were merged and several keys are left
C7_Witness ==
    /\ pc = "rank"
    /\ Len(final_jobs) >= 2
    /\ Len(all_jobs) > Len(final_jobs)

\* C8: the deduplication of final_jobs is final_jobs, in the same order.
C8_Idempotent == again.done => again.jobs = final_jobs

\* the deduplication ran again on a list it had shortened to several jobs
C8_Witness ==
    /\ again.done
    /\ Len(final_jobs) >= 2
    /\ Len(all_jobs) > Len(final_jobs)

\* a result that is valid but for the length of its title: it has both
\* elements, an http link, is job related, holds no spam phrase and does not
\* raise
OtherwiseValid(r) ==
    /\ r.has_h3
    /\ r.has_a
    /\ ~r.raises
    /\ StartsWith(r.link, Http)
    /\ is_job_related(Lower(r.title), Lower(r.link),
                      Lower(IF r.has_snippet THEN r.snippet ELSE NoDescription))
    /\ ~AnyIn(spam_phrases, Lower(r.title))

\* C9 as stated: an otherwise valid result with a title of exactly 10 or 150
\* characters is accepted, one of 9 or 151 is rejected.
C9_BoundaryAsStated ==
    \A k \in 1..Len(semit) :
        OtherwiseValid(page[k]) =>
            /\ Len(page[k].title) \in {10, 150} => semit[k]
            /\ Len(page[k].title) \in {9, 151} => ~semit[k]

\* C9, amended: an otherwise valid result with a title of exactly 11 or 149
\* characters is accepted, one of 9, 10, 150 or 151 is rejected.
C9_Boundary ==
    \A k \in 1..Len(semit) :
        OtherwiseValid(page[k]) =>
            /\ Len(page[k].title) \in {11, 149} => semit[k]
            /\ Len(page[k].title) \in {9, 10, 150, 151} => ~semit[k]

\* a page with a valid result of 11 characters, accepted, and one of 150,
\* rejected
C9_Witness ==
    /\ spc = "done"
    /\ \E k \in 1..Len(semit) :
           OtherwiseValid(page[k]) /\ Len(page[k].title) = 11 /\ semit[k]
    /\ \E k \in 1..Len(semit) :
           OtherwiseValid(page[k]) /\ Len(page[k].title) = 150 /\ ~semit[k]

\* C10: a result whose lowercased title holds a phrase of the spam list is
\* never appended, and no job gathered or returned has such a title.
C10_SpamNeverEmitted ==
    /\ \A k \in 1..Len(semit) :
           AnyIn(spam_phrases, Lower(page[k].title)) => ~semit[k]
    /\ \A k \in 1..Len(sjobs) : ~AnyIn(spam_phrases, Lower(sjobs[k].title))
    /\ \A k \in 1..Len(sret.jobs) : ~AnyIn(spam_phrases, Lower(sret.jobs[k].title))

\* 'FREE MONEY WORK FROM HOME!!' with a job link, of an accepted length, was
\* processed and not appended
C10_Witness ==
    \E k \in 1..Len(semit) :
        /\ page[k].title = FreeMoney
        /\ page[k].link = GreenhouseLink
        /\ AnyIn(job_indicators, Lower(page[k].title))
        /\ ~semit[k]

\* C11: a result whose link does not start with 'http' is never appended,
\* whatever its title and snippet, and every job gathered or returned has a
\* link that starts with 'http'.
C11_NonHttpNeverEmitted ==
    /\ \A k \in 1..Len(semit) :
           Take(page[k].link, Len(Http)) # Http => ~semit[k]
    /\ \A k \in 1..Len(sjobs) : Take(sjobs[k].link, Len(Http)) = Http
    /\ \A k \in 1..Len(sret.jobs) : Take(sret.jobs[k].link, Len(Http)) = Http

\* 'Senior Data Analyst' with the link 'ftp://old.example.com/job', which
\* passes the quality filter, was processed and not appended
C11_Witness ==
    /\ spc = "done"
    /\ \E k \in 1..Len(semit) :
           /\ page[k].link = FtpLink
           /\ page[k].has_h3 /\ page[k].has_a /\ ~page[k].raises
           /\ QualityFilter(page[k].title, page[k].link, page[k].snippet)
           /\ ~semit[k]

\* C12: create_country_job_queries returns a list without a repeated query and
\* with at most 12 entries, and every call with the same arguments returns the
\* entries in the same order.
C12_QueriesFixedOrder ==
    /\ [](calls >= 1 =>
             /\ Len(search_queries) <= 12
             /\ \A i, j \in 1..Len(search_queries) :
                    i # j => search_queries[i] # search_queries[j])
    /\ [][(calls >= 1 /\ calls' = calls + 1) => search_queries' = search_queries]_vars

\* C13: at every moment at most 3 calls of enhanced_google_scraper are
\* running, whatever the number of queries.
C13_AtMostThreeRunning ==
    Cardinality({q \in QueryIds : fut[q] = "running"}) <= 3

\* three fetches run while another query waits for a worker
C13_Witness ==
    /\ Cardinality({q \in QueryIds : fut[q] = "running"}) = 3
    /\ \E q \in QueryIds : fut[q] = "pending"

\* C14: every query is fetched exactly once: a future that was submitted is
\* never submitted again, one that was taken by a worker never goes back to the
\* queue, one that finished (with a failure or with no result) stays finished,
\* and past the worker pool every query has been fetched.
C14_FetchedOnce ==
    /\ [][\A q \in QueryIds :
              /\ fut[q] # "unsubmitted" => fut'[q] # "unsubmitted"
              /\ fut[q] \in {"running", "finished"} => fut'[q] # "pending"
              /\ fut[q] = "finished" => fut'[q] = "finished"]_vars
    /\ [](pc \in {"dedup", "rank", "sort", "return"} =>
             \A q \in QueryIds : fut[q] = "finished")

\* the loop ended after a fetch that failed and one that found nothing
C14_Witness ==
    /\ pc = "dedup"
    /\ \E q \in QueryIds : ffail[q]
    /\ \E q \in QueryIds : ~ffail[q] /\ ~fres[q].raised /\ fres[q].jobs = <<>>

\* the lists of the futures yielded so far, one after the other
YieldedLists ==
    Concat([k \in 1..Len(order) |->
               IF fres[order[k]].raised THEN <<>> ELSE fres[order[k]].jobs])

\* C15: a worker writes only its own future (its state and its result);
\* all_jobs is changed only by the orchestrator, in the loop over the finished
\* futures, and always holds the lists of the yielded futures one after the
\* other, so that no job is lost or doubled.
C15_WorkersShareNothing ==
    /\ [](all_jobs = YieldedLists)
    /\ [][all_jobs' # all_jobs =>
              /\ pc = "collect"
              /\ fut' = fut
              /\ fres' = fres
              /\ Len(order') = Len(order) + 1]_vars
    /\ [][\A q \in QueryIds :
              (fut[q] = "running" /\ fut'[q] = "finished") =>
                  /\ \A p \in QueryIds \ {q} : fut'[p] = fut[p] /\ fres'[p] = fres[p]
                  /\ all_jobs' = all_jobs
                  /\ order' = order
                  /\ completed_queries' = completed_queries
                  /\ UNCHANGED DedupVars]_vars

\* the futures were yielded in another order than they were submitted, and jobs
\* of several of them were collected
C15_Witness ==
    /\ pc = "dedup"
    /\ order[1] # 1
    /\ Len(all_jobs) >= 2

\* C16: while the deduplication and the ranking run, every submitted fetch
\* has finished (or the batch timeout has elapsed), and no fetch is running.
C16_AggregationAfterWorkers ==
    pc \in {"dedup", "rank", "sort", "return"} =>
        /\ (\A q \in QueryIds : fut[q] = "finished") \/ timed_out
        /\ \A q \in QueryIds : fut[q] # "running"

\* the deduplication map is being built from the jobs of several fetches
C16_Witness ==
    /\ pc = "dedup"
    /\ di > 1
    /\ di <= Len(all_jobs)
    /\ unique_jobs # <<>>

\* the score of a job in the request of the state
ScoreOf(job) == calculate_relevance_score(job, Env)

\* how often x is in the list
Count(list, x) == Cardinality({k \in 1..Len(list) : list[k] = x})

\* the place of a job of final_jobs (the jobs of a deduplicated list differ)
PlaceOf(job) == CHOOSE k \in 1..Len(final_jobs) : final_jobs[k] = job

\* C17: the list returned is a permutation of the deduplicated list, in order
\* of non-increasing relevance score, and jobs of equal score are in the order
\* they had after the deduplication.
C17_SortedStable ==
    pc = "return" =>
        /\ Len(returned) = Len(final_jobs)
        /\ \A k \in 1..Len(final_jobs) :
               Count(returned, final_jobs[k]) = Count(final_jobs, final_jobs[k])
        /\ \A i, j \in 1..Len(returned) :
               i < j =>
                   /\ ScoreOf(returned[i]) >= ScoreOf(returned[j])
                   /\ ScoreOf(returned[i]) = ScoreOf(returned[j])
                          => PlaceOf(returned[i]) < PlaceOf(returned[j])

\* three jobs were put in another order, two of them of equal score
C17_Witness ==
    /\ pc = "return"
    /\ Len(returned) = 3
    /\ returned # final_jobs
    /\ \E i, j \in 1..Len(returned) :
           i < j /\ ScoreOf(returned[i]) = ScoreOf(returned[j])
    /\ \E i, j \in 1..Len(returned) :
           i < j /\ ScoreOf(returned[i]) > ScoreOf(returned[j])

\* C18: no key that calculate_relevance_score gives is negative.
C18_ScoreNotNegative ==
    \A k \in 1..Len(keys) : keys[k] >= 0

\* a title of more than 120 characters that matches nothing, from an unknown
\* source, was scored: the penalty alone would give -8
C18_Witness ==
    /\ pc = "return"
    /\ \E k \in 1..Len(keys) :
           /\ Len(final_jobs[k].title) > 120
           /\ ExactMatch(final_jobs[k], Env) + WordMatches(final_jobs[k], Env)
              + CountryRelevance(final_jobs[k], Env)
              + IndustryRelevance(final_jobs[k], Env) + SourceBonus(final_jobs[k]) = 0
           /\ keys[k] = 0

\* C19: a job whose title is the job title of the request scores at least as
\* high as the same job with a single word of the job title as its title
\* ('Data Analyst' against 'Analyst' or 'Data'), snippet and source being equal.
C19_ExactTitleScoresHigher ==
    \A k \in 1..Len(keys) :
        final_jobs[k].title = job_title =>
            \A w \in SetOf(Words(job_title)) :
                keys[k] >= ScoreOf([final_jobs[k] EXCEPT !.title = w])

\* a job titled 'Data Analyst' was scored for the job title 'Data Analyst', and
\* higher than it would be with the title 'Analyst'
C19_Witness ==
    /\ pc = "return"
    /\ job_title = DataAnalyst
    /\ \E k \in 1..Len(keys) :
           /\ final_jobs[k].title = DataAnalyst
           /\ keys[k] > ScoreOf([final_jobs[k] EXCEPT
                                     !.title = <<"A","n","a","l","y","s","t">>])

\* C20 as stated: the score of a job is the same in every request with the
\* same job title and industry, whatever the country and the city.
C20_ScoreIgnoresCountry ==
    \A k \in 1..Len(keys) :
        \A c \in Countries, t \in Cities :
            keys[k] = calculate_relevance_score(final_jobs[k],
                          [Env EXCEPT !.country = c, !.city = t])

\* C20, amended: the score of a job is the same in every request with the same
\* job title, country and industry, whatever the city.
C20_ScoreIgnoresCity ==
    \A k \in 1..Len(keys) :
        \A t \in Cities :
            keys[k] = calculate_relevance_score(final_jobs[k], [Env EXCEPT !.city = t])

\* a job whose snippet names the city of the request was scored
C20_Witness ==
    /\ pc = "return"
    /\ city = Pune
    /\ \E k \in 1..Len(keys) :
           /\ Contains(Lower(final_jobs[k].snippet), Lower(city))
           /\ keys[k] > 0

\* the list returned for a list of collected jobs, in the request of the state
RankOf(jobs) ==
    LET unique == Deduplicate(jobs) IN
    SortedJobs(unique, [k \in 1..Len(unique) |-> ScoreOf(unique[k])])

\* the queries in the order they were submitted
SubmissionOrder == [q \in 1..Len(search_queries) |-> q]

\* C21 as stated: the list returned is the same whatever the order in which the
\* fetches complete: it is the one of the fetches completing in the order of
\* their submission.
C21_CompletionOrderFree ==
    pc = "return" => returned = RankOf(ExpectedAll(SubmissionOrder))

\* all_jobs[i] is the first job of its key in all_jobs
FirstOfKey(i) ==
    \A j \in 1..(i - 1) : KeyTuple(all_jobs[j]) # KeyTuple(all_jobs[i])

FirstPlace(job) ==
    CHOOSE i \in 1..Len(all_jobs) : FirstOfKey(i) /\ all_jobs[i] = job

\* C21, amended: the list returned is determined by the list of collected jobs
\* in their order of arrival: it holds, for every key, the first job that
\* arrived with it, by non-increasing score, jobs of equal score in the order
\* of arrival.
C21_DeterminedByArrival ==
    pc = "return" =>
        /\ Len(returned) = Cardinality({i \in 1..Len(all_jobs) : FirstOfKey(i)})
        /\ \A i \in 1..Len(all_jobs) :
               FirstOfKey(i) => \E k \in 1..Len(returned) : returned[k] = all_jobs[i]
        /\ \A k \in 1..Len(returned) :
               \E i \in 1..Len(all_jobs) : FirstOfKey(i) /\ returned[k] = all_jobs[i]
        /\ \A k, l \in 1..Len(returned) :
               k < l =>
                   \/ ScoreOf(returned[k]) > ScoreOf(returned[l])
                   \/ /\ ScoreOf(returned[k]) = ScoreOf(returned[l])
                      /\ FirstPlace(returned[k]) < FirstPlace(returned[l])

\* the fetches completed in another order than they were submitted, and the
\* list returned is another than that of the order of submission
C21_Witness ==
    /\ pc = "return"
    /\ order # SubmissionOrder
    /\ Len(returned) >= 2
    /\ returned # RankOf(ExpectedAll(SubmissionOrder))

\* the candidates the fetches produced
FetchedJobs ==
    UNION {{fres[q].jobs[i] : i \in 1..Len(fres[q].jobs)} :
               q \in {p \in QueryIds : ~fres[p].raised}}

\* C22: every candidate of the key-to-candidate map, of final_jobs and of the
\* returned list is, field for field, a candidate a fetch produced, and a step
\* of the deduplication leaves every entry of the map as it was or puts the
\* whole arriving candidate in it.
C22_CandidatesUnmodified ==
    /\ [](/\ \A k \in 1..Len(unique_jobs) : unique_jobs[k].job \in FetchedJobs
          /\ \A k \in 1..Len(final_jobs) : final_jobs[k] \in FetchedJobs
          /\ \A k \in 1..Len(returned) : returned[k] \in FetchedJobs)
    /\ [][unique_jobs' # unique_jobs =>
              /\ di <= Len(all_jobs)
              /\ \A k \in 1..Len(unique_jobs') :
                     \/ k <= Len(unique_jobs) /\ unique_jobs'[k] = unique_jobs[k]
                     \/ unique_jobs'[k].job = all_jobs[di]]_vars

\* a list of several candidates, one of them with capitals in its title, was
\* returned after a candidate was discarded as a duplicate
C22_Witness ==
    /\ pc = "return"
    /\ Len(returned) >= 2
    /\ Len(returned) < Len(all_jobs)
    /\ \E k \in 1..Len(returned) : returned[k].title # Lower(returned[k].title)

\* the labels a source can be
SourceLabels ==
    {LinkedIn, Indeed, Glassdoor, Monster, Greenhouse, Lever, Workday, BambooHR,
     CompanyCareerPage, Unknown}

\* C23: every job gathered or returned by enhanced_google_scraper has a title
\* and a link that are not empty and a source that is one of the ten labels.
C23_EmittedWellFormed ==
    /\ \A k \in 1..Len(sjobs) :
           /\ Len(sjobs[k].title) > 0
           /\ Len(sjobs[k].link) > 0
           /\ sjobs[k].source \in SourceLabels
    /\ \A k \in 1..Len(sret.jobs) :
           /\ Len(sret.jobs[k].title) > 0
           /\ Len(sret.jobs[k].link) > 0
           /\ sret.jobs[k].source \in SourceLabels

\* a job whose link holds no indicator was returned, from a page that also
\* held a result without a title or without a link
C23_Witness ==
    /\ spc = "done"
    /\ \E k \in 1..Len(sret.jobs) : sret.jobs[k].link = ExampleLink
    /\ \E k \in 1..Len(semit) :
           /\ page[k].has_h3 /\ page[k].has_a /\ ~page[k].raises
           /\ page[k].title = <<>> \/ page[k].link = <<>>
           /\ ~semit[k]

\* the indicators and their labels in the order the claim gives
IndicatorOrder ==
    << <<"linkedin", LinkedIn>>, <<"indeed", Indeed>>, <<"glassdoor", Glassdoor>>,
       <<"monster", Monster>>, <<"greenhouse", Greenhouse>>, <<"lever", Lever>>,
       <<"workday", Workday>>, <<"bamboohr", BambooHR>>,
       <<"careers", CompanyCareerPage>> >>

\* the characters of one of the names above
Chars(name) ==
    CASE name = "linkedin" -> <<"l","i","n","k","e","d","i","n">>
      [] name = "indeed" -> <<"i","n","d","e","e","d">>
      [] name = "glassdoor" -> <<"g","l","a","s","s","d","o","o","r">>
      [] name = "monster" -> <<"m","o","n","s","t","e","r">>
      [] name = "greenhouse" -> <<"g","r","e","e","n","h","o","u","s","e">>
      [] name = "lever" -> <<"l","e","v","e","r">>
      [] name = "workday" -> <<"w","o","r","k","d","a","y">>
      [] name = "bamboohr" -> <<"b","a","m","b","o","o","h","r">>
      [] name = "careers" -> <<"c","a","r","e","e","r","s">>

Matches(job, k) == Contains(Lower(job.link), Chars(IndicatorOrder[k][1]))

\* the source of the job is the label of the first indicator in its link
FirstMatchIs(job) ==
    \E k \in 1..Len(IndicatorOrder) :
        /\ Matches(job, k)
        /\ \A j \in 1..(k - 1) : ~Matches(job, j)
        /\ job.source = IndicatorOrder[k][2]

NoMatch(job) == \A k \in 1..Len(IndicatorOrder) : ~Matches(job, k)

\* the path of a link: what follows the host
LinkPath(link) ==
    LET after == IF Contains(link, <<":","/","/">>)
                 THEN Drop(link, Find(link, <<":","/","/">>) + 3) ELSE link
    IN IF Contains(after, <<"/">>) THEN Drop(after, Find(after, <<"/">>)) ELSE <<>>

HasCareersOrJobsPath(job) ==
    \/ Contains(LinkPath(Lower(job.link)), <<"/","c","a","r","e","e","r","s">>)
    \/ Contains(LinkPath(Lower(job.link)), <<"/","j","o","b","s">>)

\* C24 as stated: the source of a gathered job is the label of the first
\* indicator in its lowercased link; with no indicator in the link it is
\* 'Company Career Page' when the path holds '/careers' or '/jobs' and 'Unknown'
\* otherwise.
C24_SourceWithPathRule ==
    \A k \in 1..Len(sjobs) :
        \/ FirstMatchIs(sjobs[k])
        \/ /\ NoMatch(sjobs[k])
           /\ sjobs[k].source =
                  IF HasCareersOrJobsPath(sjobs[k]) THEN CompanyCareerPage ELSE Unknown

\* C24, amended: the source of a gathered job is the label of the first
\* indicator in its lowercased link, and 'Unknown' with no indicator in the
\* link, whatever its path.
C24_SourceFirstMatchOrUnknown ==
    \A k \in 1..Len(sjobs) :
        \/ FirstMatchIs(sjobs[k])
        \/ NoMatch(sjobs[k]) /\ sjobs[k].source = Unknown

\* a job whose link holds two indicators and a job whose link holds none, with
\* '/jobs' in its path, were returned
C24_Witness ==
    /\ spc = "done"
    /\ \E k \in 1..Len(sret.jobs) :
           /\ Cardinality({j \in 1..Len(IndicatorOrder) : Matches(sret.jobs[k], j)}) >= 2
           /\ sret.jobs[k].source = LinkedIn
    /\ \E k \in 1..Len(sret.jobs) :
           /\ NoMatch(sret.jobs[k])
           /\ HasCareersOrJobsPath(sret.jobs[k])
           /\ sret.jobs[k].source = Unknown

\* the words of the lowercased job title of the request
RoleWords == Words(Lower(job_title))

\* the places of the words of more than two characters that are in the title
\* of the job, and of those that are only in its snippet
InTitle(job, words) ==
    LET title_lower == Lower(job.title) IN
    {w \in 1..Len(words) : Len(words[w]) > 2 /\ Contains(title_lower, words[w])}

OnlyInSnippet(job, words) ==
    LET title_lower == Lower(job.title)
        snippet_lower == Lower(job.snippet)
    IN {w \in 1..Len(words) :
            /\ Len(words[w]) > 2
            /\ ~Contains(title_lower, words[w])
            /\ Contains(snippet_lower, words[w])}

\* what the rest of calculate_relevance_score adds
OtherTerms(job) ==
    ExactMatch(job, Env) + CountryRelevance(job, Env) + IndustryRelevance(job, Env)
        + SourceBonus(job) - LengthPenalty(job)

\* C25: the key the sort computes for a job is the other terms plus 8 for
\* every word of the lowercased job title longer than 2 characters that is in
\* the title of the job and 3 for every such word that is not in the title
\* but in the snippet (0 when the sum is negative); shorter words add nothing.
C25_PerWordScore ==
    pc = "sort" =>
        LET words == RoleWords IN
        \A k \in 1..Len(final_jobs) :
            LET sum == 8 * Cardinality(InTitle(final_jobs[k], words))
                         + 3 * Cardinality(OnlyInSnippet(final_jobs[k], words))
                         + OtherTerms(final_jobs[k])
            IN keys[k] = IF sum > 0 THEN sum ELSE 0

\* jobs were scored for a job title with a word of two characters that is in
\* the title of a job and with a longer word that is in the title and in the
\* snippet of a job
C25_Witness ==
    /\ pc = "sort"
    /\ \E k \in 1..Len(final_jobs) :
           /\ \E w \in 1..Len(RoleWords) :
                  /\ Len(RoleWords[w]) <= 2
                  /\ Contains(Lower(final_jobs[k].title), RoleWords[w])
           /\ InTitle(final_jobs[k], RoleWords) # {}
           /\ keys[k] > 0
    /\ \E k \in 1..Len(final_jobs) :
           \E w \in InTitle(final_jobs[k], RoleWords) :
               Contains(Lower(final_jobs[k].snippet), RoleWords[w])

\* what the source of the job adds to its key: the jobs at hand have a positive
\* sum without it
BonusOf(k) ==
    keys[k] - (ExactMatch(final_jobs[k], Env) + WordMatches(final_jobs[k], Env)
                 + CountryRelevance(final_jobs[k], Env)
                 + IndustryRelevance(final_jobs[k], Env)
                 - LengthPenalty(final_jobs[k]))

Scored == IF pc \in {"sort", "return"} THEN 1..Len(final_jobs) ELSE {}

\* C26 as stated: a job from Greenhouse, LinkedIn or Workday gets a bonus no
\* job of another source exceeds, and a job of source 'Unknown' gets a bonus
\* that is positive and that exceeds no other.
C26_AtsHighestUnknownPositive ==
    \A k \in Scored :
        /\ final_jobs[k].source \in {Greenhouse, LinkedIn, Workday} =>
               \A l \in Scored : BonusOf(k) >= BonusOf(l)
        /\ final_jobs[k].source = Unknown =>
               /\ BonusOf(k) > 0
               /\ \A l \in Scored : BonusOf(k) <= BonusOf(l)

\* C26, amended: a job from LinkedIn gets 8, a bonus no job of another source
\* exceeds; a job from Greenhouse gets 6 and a job from Workday gets 0; a job
\* of source 'Unknown' gets 0, a bonus that exceeds no other.
C26_LinkedInHighestUnknownZero ==
    \A k \in Scored :
        /\ final_jobs[k].source = LinkedIn =>
               BonusOf(k) = 8 /\ \A l \in Scored : BonusOf(k) >= BonusOf(l)
        /\ final_jobs[k].source = Greenhouse => BonusOf(k) = 6
        /\ final_jobs[k].source = Workday => BonusOf(k) = 0
        /\ final_jobs[k].source = Unknown =>
               BonusOf(k) = 0 /\ \A l \in Scored : BonusOf(k) <= BonusOf(l)

\* a job from Greenhouse was scored with a job from LinkedIn
C26_Witness ==
    /\ pc = "sort"
    /\ \E k, l \in Scored :
           /\ final_jobs[k].source = Greenhouse
           /\ final_jobs[l].source = LinkedIn
           /\ keys[k] < keys[l]

\* C27: a call of create_country_job_queries raises nothing and returns a list
\* that is not empty, whose queries are not empty.
C27_QueriesNeverFail ==
    calls >= 1 =>
        /\ exc = "none"
        /\ Len(search_queries) >= 1
        /\ \A k \in 1..Len(search_queries) : Len(search_queries[k]) > 0

\* the call for no job title, a country that is no key of COUNTRIES and an
\* industry that is no key of INDUSTRIES returned its four queries
C27_Witness ==
    /\ calls >= 1
    /\ job_title = <<>>
    /\ country \notin DOMAIN COUNTRIES
    /\ industry # None /\ industry \notin DOMAIN INDUSTRIES
    /\ exc = "none"
    /\ Len(search_queries) = 4

\* C28: two jobs that met under one key have the same source; a step of the
\* deduplication never changes an entry of unique_jobs; it appends the
\* arriving job when its key is new, and only then: the job unique_jobs holds
\* for a key is the first job that arrived with it.
C28_FirstArrivalKept ==
    /\ [](\A d \in discards : d.kept.source = d.discarded.source)
    /\ [][\A k \in 1..Len(unique_jobs) :
              k <= Len(unique_jobs') /\ unique_jobs'[k] = unique_jobs[k]]_vars
    /\ [][di' = di + 1 =>
              IF HasKey(unique_jobs, job_hash(all_jobs[di]))
              THEN unique_jobs' = unique_jobs
              ELSE /\ Len(unique_jobs') = Len(unique_jobs) + 1
                   /\ unique_jobs'[Len(unique_jobs')].job = all_jobs[di]]_vars

\* a job of a source that is not preferred arrived first, jobs of preferred
\* sources with the same title after it, and a job of a preferred source was
\* dropped for an earlier job of its key
C28_Witness ==
    /\ pc = "rank"
    /\ Len(all_jobs) >= 3
    /\ ~IsPreferred(Lower(all_jobs[1].source))
    /\ \E i \in 2..Len(all_jobs) :
           /\ IsPreferred(Lower(all_jobs[i].source))
           /\ title_clean(all_jobs[i]) = title_clean(all_jobs[1])
    /\ \E d \in discards :
           IsPreferred(Lower(d.discarded.source)) /\ d.kept # d.discarded

\* the call is over
ApiDone == apc \in {"returned", "raised"}

LastOutcome == outcomes[Len(outcomes)]

\* C29: the call makes at most max_retries posts, and a further post only
\* after a timeout; on another request error or a malformed response it
\* returns None (and raises nothing); it returns the content of the first
\* response that has one; it returns None after max_retries timeouts; and it
\* sleeps 1, 2, 4, ... seconds, each time before a further post.
C29_RetriesOnlyOnTimeout ==
    /\ Len(outcomes) <= max_retries
    /\ \A k \in 1..(Len(outcomes) - 1) : outcomes[k] = "timeout"
    /\ (ApiDone /\ outcomes # <<>>) =>
           /\ LastOutcome \in {"connection_error", "http_error", "not_json",
                                "no_choices", "empty_choices", "null_choices"} =>
                  apc = "returned" /\ aret = PyNone
           /\ LastOutcome \in {"answer", "empty_answer"} =>
                  apc = "returned" /\ aret = PyStr(ReplyContent(LastOutcome))
           /\ LastOutcome = "timeout" =>
                  apc = "returned" /\ aret = PyNone /\ Len(outcomes) = max_retries
    /\ (ApiDone /\ outcomes = <<>>) => (aret = PyNone /\ max_retries = 0)
    /\ slept = [k \in 1..Len(slept) |-> Pow2(k - 1)]
    /\ Len(slept) <= Len(outcomes)
    /\ ApiDone => Len(slept) = (IF outcomes = <<>> THEN 0 ELSE Len(outcomes) - 1)

\* C29 but for the responses whose reading raises an exception that is neither
\* a KeyError nor an IndexError
C29_ButForOtherExceptions ==
    /\ Len(outcomes) <= max_retries
    /\ \A k \in 1..(Len(outcomes) - 1) : outcomes[k] = "timeout"
    /\ (ApiDone /\ outcomes # <<>>) =>
           /\ LastOutcome \in {"connection_error", "http_error", "not_json",
                                "no_choices", "empty_choices"} =>
                  apc = "returned" /\ aret = PyNone
           /\ LastOutcome = "null_choices" => apc = "raised"
           /\ LastOutcome \in {"answer", "empty_answer"} =>
                  apc = "returned" /\ aret = PyStr(ReplyContent(LastOutcome))
           /\ LastOutcome = "timeout" =>
                  apc = "returned" /\ aret = PyNone /\ Len(outcomes) = max_retries
    /\ (ApiDone /\ outcomes = <<>>) => (aret = PyNone /\ max_retries = 0)
    /\ slept = [k \in 1..Len(slept) |-> Pow2(k - 1)]
    /\ Len(slept) <= Len(outcomes)
    /\ ApiDone => Len(slept) = (IF outcomes = <<>> THEN 0 ELSE Len(outcomes) - 1)

\* C30: whenever no run of the script is under way, every user message of the
\* history is followed by an assistant message and every assistant message
\* follows a user message: the history alternates user, assistant.
C30_HistoryAlternates ==
    /\ \A i \in 1..Len(chat_messages) :
           chat_messages[i].role = "user" =>
               i < Len(chat_messages) /\ chat_messages[i + 1].role = "assistant"
    /\ \A i \in 1..Len(chat_messages) :
           chat_messages[i].role = "assistant" =>
               i > 1 /\ chat_messages[i - 1].role = "user"

====
